---------------------------- MODULE Spec2Model ----------------------------
(***************************************************************************)
(* Aurivox: frequency-domain multiband WDRC (src/Aurivox).                 *)
(*                                                                         *)
(* Numbers.  The C `float` fields and locals of class WDRC are modelled as *)
(* IEEE-754 binary32 values with round-to-nearest-even: a record           *)
(* [k, s, m, e] stands for s * m * 2^e with 2^23 <= m < 2^24 (m = 0 for    *)
(* zero), k = "nan" for NaN and k = "inf" for an infinity.  Subnormal      *)
(* results are flushed to zero and the sign of zero is not kept; neither   *)
(* occurs in the value ranges of the compressor.  All intermediate integer *)
(* arithmetic is done in 24-bit limbs so that it stays inside 32 bits.     *)
(* The `double` work buffers real[]/imag[] of MultibandWDRC are modelled   *)
(* as exact integers in units of 1/Q; the 4-point transform and its        *)
(* Hamming window are exact on them.                                       *)
(***************************************************************************)
EXTENDS Integers, Sequences, FiniteSets, TLC

-----------------------------------------------------------------------------
(* binary32 arithmetic *)

T12 == 2^12
T23 == 2^23
T24 == 2^24

NaN == [k |-> "nan", s |-> 1, m |-> 0, e |-> 0]
Inf(s) == [k |-> "inf", s |-> s, m |-> 0, e |-> 0]
Zero == [k |-> "num", s |-> 1, m |-> 0, e |-> 0]
Flt(s, m, e) == [k |-> "num", s |-> s, m |-> m, e |-> e]

IsNaN(a) == a.k = "nan"
IsInf(a) == a.k = "inf"
IsZero(a) == a.k = "num" /\ a.m = 0
IsFinite(a) == a.k = "num"

\* The number of bits of n, 0 <= n < 2^31.
BitLen4(n) ==
    IF n = 0 THEN 0 ELSE IF n < 2 THEN 1 ELSE IF n < 4 THEN 2
    ELSE IF n < 8 THEN 3 ELSE 4
BitLen8(n) == IF n < 16 THEN BitLen4(n) ELSE 4 + BitLen4(n \div 16)
BitLen16(n) == IF n < 256 THEN BitLen8(n) ELSE 8 + BitLen8(n \div 256)
BitLen(n) == IF n < 65536 THEN BitLen16(n) ELSE 16 + BitLen16(n \div 65536)

\* F applied to the value of v: v is evaluated once, whatever F does with it.
Bind(v, F(_)) == CHOOSE r \in {F(x) : x \in {v}} : TRUE

\* s * m * 2^e with 2^23 <= m < 2^24, overflowing to infinity and flushing to zero
Pack(s, m, e) ==
    IF e > 104 THEN Inf(s) ELSE IF e < -149 THEN Zero ELSE Flt(s, m, e)

\* The binary32 nearest to s * (H * 2^24 + L) * 2^e (ties to even), 0 <= L < 2^24.
RoundPack(s0, H0, L0, e0) ==
    Bind(<<s0, H0, L0, e0>>, LAMBDA p :
    Bind(IF p[2] > 0 THEN 24 + BitLen(p[2]) ELSE BitLen(p[3]), LAMBDA len :
      LET s  == p[1]
          H  == p[2]
          L  == p[3]
          e  == p[4]
          sh == len - 24
          q  == IF sh <= 24 THEN H * 2^(24 - sh) + (L \div 2^sh)
                            ELSE H \div 2^(sh - 24)
          r  == IF sh <= 24 THEN L % 2^sh
                            ELSE (H % 2^(sh - 24)) * T24 + L
          half == 2^(sh - 1)
      IN  IF len = 0 THEN Zero
          ELSE IF len <= 24 THEN Pack(s, L * 2^(24 - len), e - (24 - len))
          ELSE Bind(<<q, r>>, LAMBDA qr :
                 IF qr[2] > half \/ (qr[2] = half /\ qr[1] % 2 = 1)
                 THEN (IF qr[1] + 1 = T24 THEN Pack(s, T23, e + sh + 1)
                                          ELSE Pack(s, qr[1] + 1, e + sh))
                 ELSE Pack(s, qr[1], e + sh))))

FNeg(a0) ==
    Bind(a0, LAMBDA a :
      IF a.k = "nan" \/ IsZero(a) THEN a ELSE [a EXCEPT !.s = -a.s])

FAbs(a0) == Bind(a0, LAMBDA a : IF a.k = "nan" THEN a ELSE [a EXCEPT !.s = 1])

FromInt(n0) ==
    Bind(n0, LAMBDA n :
      IF n < 0 THEN RoundPack(-1, (-n) \div T24, (-n) % T24, 0)
               ELSE RoundPack(1, n \div T24, n % T24, 0))

FMul(a0, b0) ==
    Bind(<<a0, b0>>, LAMBDA p :
      LET a == p[1]
          b == p[2]
      IN  IF IsNaN(a) \/ IsNaN(b) THEN NaN
          ELSE IF IsInf(a) \/ IsInf(b)
               THEN IF IsZero(a) \/ IsZero(b) THEN NaN ELSE Inf(a.s * b.s)
          ELSE IF a.m = 0 \/ b.m = 0 THEN Zero
          ELSE LET ah == a.m \div T12
                   al == a.m % T12
                   bh == b.m \div T12
                   bl == b.m % T12
               IN  Bind(ah * bl + al * bh, LAMBDA mid :
                   Bind((mid % T12) * T12 + al * bl, LAMBDA l0 :
                     RoundPack(a.s * b.s, ah * bh + (mid \div T12) + (l0 \div T24),
                               l0 % T24, a.e + b.e))))

\* |a| < |b| for finite non-NaN values.
MagLt(a, b) ==
    IF b.m = 0 THEN FALSE
    ELSE IF a.m = 0 THEN TRUE
    ELSE a.e < b.e \/ (a.e = b.e /\ a.m < b.m)

\* a + b for finite a, b with |a| >= |b| > 0.
AddOrdered(a, b) ==
    Bind(a.e - b.e, LAMBDA d :
      IF d >= 27 THEN a
      ELSE Bind(IF d <= 24 THEN <<a.m \div 2^(24 - d), (a.m % 2^(24 - d)) * 2^d>>
                           ELSE <<a.m * 2^(d - 24), 0>>, LAMBDA hl :
             LET hi == hl[1]
                 lo == hl[2]
                 sum == lo + b.m
                 dif == lo - b.m
             IN  IF a.s = b.s
                 THEN RoundPack(a.s, hi + (sum \div T24), sum % T24, b.e)
                 ELSE IF dif >= 0 THEN RoundPack(a.s, hi, dif, b.e)
                 ELSE RoundPack(a.s, hi - 1, dif + T24, b.e)))

FAdd(a0, b0) ==
    Bind(<<a0, b0>>, LAMBDA p :
      LET a == p[1]
          b == p[2]
      IN  IF IsNaN(a) \/ IsNaN(b) THEN NaN
          ELSE IF IsInf(a) THEN (IF IsInf(b) /\ a.s # b.s THEN NaN ELSE a)
          ELSE IF IsInf(b) THEN b
          ELSE IF b.m = 0 THEN a
          ELSE IF a.m = 0 THEN b
          ELSE IF MagLt(a, b) THEN AddOrdered(b, a) ELSE AddOrdered(a, b))

FSub(a, b) == FAdd(a, FNeg(b))

\* n further quotient bits of r / d by long division: <<quotient, remainder>>
\* (r < d < 2^24, so seven bits at a step stay within 32 bits).
RECURSIVE DivBits(_, _, _, _)
DivBits(q0, r0, d0, n0) ==
    Bind(<<q0, r0, d0, n0>>, LAMBDA p :
      IF p[4] > 7
      THEN DivBits(128 * p[1] + ((128 * p[2]) \div p[3]), (128 * p[2]) % p[3],
                   p[3], p[4] - 7)
      ELSE <<2^p[4] * p[1] + ((2^p[4] * p[2]) \div p[3]), (2^p[4] * p[2]) % p[3]>>)

FDiv(a0, b0) ==
    Bind(<<a0, b0>>, LAMBDA p :
      LET a == p[1]
          b == p[2]
      IN  IF IsNaN(a) \/ IsNaN(b) THEN NaN
          ELSE IF IsInf(a) THEN (IF IsInf(b) THEN NaN ELSE Inf(a.s * b.s))
          ELSE IF IsInf(b) THEN Zero
          ELSE IF b.m = 0 THEN (IF a.m = 0 THEN NaN ELSE Inf(a.s * b.s))
          ELSE IF a.m = 0 THEN Zero
          ELSE Bind(DivBits(a.m \div b.m, a.m % b.m, b.m, 26), LAMBDA qr :
                 LET v == 2 * qr[1] + (IF qr[2] # 0 THEN 1 ELSE 0)
                 IN  RoundPack(a.s * b.s, v \div T24, v % T24, a.e - b.e - 27)))

\* Comparisons; every comparison with a NaN is false, as in C.
FLt(a0, b0) ==
    Bind(<<a0, b0>>, LAMBDA p :
      LET a == p[1]
          b == p[2]
      IN  IF IsNaN(a) \/ IsNaN(b) THEN FALSE
          ELSE IF IsInf(a) THEN a.s = -1 /\ ~(IsInf(b) /\ b.s = -1)
          ELSE IF IsInf(b) THEN b.s = 1
          ELSE IF a.m = 0 THEN b.m # 0 /\ b.s = 1
          ELSE IF b.m = 0 THEN a.s = -1
          ELSE IF a.s # b.s THEN a.s = -1
          ELSE IF a.s = 1 THEN MagLt(a, b) ELSE MagLt(b, a))

FGt(a, b) == FLt(b, a)
FEq(a0, b0) ==
    Bind(<<a0, b0>>, LAMBDA p : ~IsNaN(p[1]) /\ ~IsNaN(p[2]) /\ p[1] = p[2])
FLe(a0, b0) ==
    Bind(<<a0, b0>>, LAMBDA p : FLt(p[1], p[2]) \/ FEq(p[1], p[2]))
FGe(a, b) == FLe(b, a)

-----------------------------------------------------------------------------
(* libm: log10, pow(10, .), exp, sqrt.  The library is not part of the      *)
(* repository; these are table-and-interpolation evaluations of the same    *)
(* functions, accurate to about 1e-5 relative (log10: 4e-6 absolute), and   *)
(* exact where the result is exact (log10(1) = 0, pow(10, 0) = 1).          *)

One == Flt(1, T23, -23)

\* a * 2^k, exact.
Scale2(a0, k) ==
    Bind(a0, LAMBDA a :
      IF a.k = "num" /\ a.m # 0 THEN [a EXCEPT !.e = @ + k] ELSE a)

\* The integer nearest to a * 2^bits, for finite a with |a * 2^bits| < 2^30.
ToFixed(a0, bits) ==
    Bind(a0, LAMBDA a :
      LET sh == a.e + bits
      IN  IF a.m = 0 THEN 0
          ELSE IF sh >= 0 THEN a.s * a.m * 2^sh
          ELSE IF -sh > 25 THEN 0
          ELSE a.s * ((a.m + 2^(-sh - 1)) \div 2^(-sh)))

FromFixed(v, bits) == Scale2(FromInt(v), -bits)

\* floor(a * b / 2^sh) for 0 <= a < 2^27, 0 <= b < 2^24, 0 <= sh <= 24.
MulShift(a0, b0, sh) ==
    Bind(<<a0, b0>>, LAMBDA p :
      LET ah == p[1] \div T12
          al == p[1] % T12
          bh == p[2] \div T12
          bl == p[2] % T12
      IN  Bind(ah * bl + al * bh, LAMBDA mid :
          Bind((mid % T12) * T12 + al * bl, LAMBDA l0 :
            (ah * bh + (mid \div T12) + (l0 \div T24)) * 2^(24 - sh)
            + ((l0 % T24) \div 2^sh))))

\* round(log10(1 + i/128) * 2^24), i = 0..128
Log10Table ==
    <<0, 56703, 112967, 168801, 224210, 279201, 333780, 387953,
      441726, 495106, 548097, 600705, 652937, 704796, 756290, 807421,
      858197, 908621, 958699, 1008434, 1057833, 1106899, 1155636, 1204050,
      1252144, 1299923, 1347391, 1394551, 1441408, 1487966, 1534228, 1580198,
      1625880, 1671278, 1716394, 1761232, 1805797, 1850090, 1894116, 1937878,
      1981378, 2024620, 2067607, 2110341, 2152827, 2195066, 2237062, 2278817,
      2320334, 2361616, 2402666, 2443485, 2484077, 2524444, 2564589, 2604514,
      2644221, 2683713, 2722992, 2762061, 2800921, 2839575, 2878025, 2916273,
      2954321, 2992172, 3029827, 3067289, 3104558, 3141639, 3178531, 3215238,
      3251760, 3288101, 3324261, 3360243, 3396047, 3431677, 3467133, 3502418,
      3537532, 3572479, 3607258, 3641872, 3676322, 3710611, 3744738, 3778707,
      3812518, 3846173, 3879673, 3913020, 3946214, 3979259, 4012154, 4044901,
      4077502, 4109957, 4142269, 4174438, 4206465, 4238353, 4270101, 4301712,
      4333186, 4364525, 4395729, 4426801, 4457740, 4488549, 4519228, 4549779,
      4580201, 4610498, 4640668, 4670715, 4700638, 4730439, 4760118, 4789677,
      4819116, 4848437, 4877641, 4906728, 4935699, 4964555, 4993298, 5021928,
      5050445>>

\* round(2^(i/128) * 2^23), i = 0..128
Exp2Table ==
    <<8388608, 8434157, 8479954, 8525999, 8572295, 8618841, 8665641, 8712694,
      8760003, 8807569, 8855394, 8903477, 8951823, 9000430, 9049301, 9098438,
      9147842, 9197514, 9247455, 9297668, 9348154, 9398913, 9449948, 9501261,
      9552851, 9604722, 9656875, 9709311, 9762032, 9815039, 9868333, 9921917,
      9975792, 10029960, 10084422, 10139179, 10194234, 10249587, 10305242, 10361198,
      10417458, 10474024, 10530897, 10588079, 10645571, 10703375, 10761494, 10819928,
      10878679, 10937749, 10997140, 11056853, 11116891, 11177254, 11237946, 11298967,
      11360319, 11422004, 11484025, 11546382, 11609078, 11672114, 11735492, 11799215,
      11863283, 11927700, 11992466, 12057584, 12123055, 12188882, 12255067, 12321610,
      12388516, 12455784, 12523418, 12591419, 12659789, 12728530, 12797645, 12867135,
      12937002, 13007249, 13077877, 13148888, 13220286, 13292070, 13364245, 13436812,
      13509772, 13583129, 13656884, 13731039, 13805598, 13880561, 13955931, 14031710,
      14107901, 14184505, 14261526, 14338964, 14416824, 14495106, 14573813, 14652947,
      14732511, 14812507, 14892937, 14973805, 15055111, 15136859, 15219050, 15301688,
      15384775, 15468313, 15552304, 15636752, 15721658, 15807025, 15892855, 15979152,
      16065917, 16153153, 16240863, 16329050, 16417715, 16506861, 16596492, 16686609,
      16777216>>

\* log10(a) for a > 0; log10(0) = -inf; log10 of a negative number is NaN.
Log10(a0) ==
    Bind(a0, LAMBDA a :
      IF IsNaN(a) THEN NaN
      ELSE IF IsZero(a) THEN Inf(-1)
      ELSE IF a.s = -1 THEN NaN
      ELSE IF IsInf(a) THEN a
      ELSE LET idx  == (a.m - T23) \div 2^16
               frac == ((a.m - T23) % 2^16) \div 16
               lo   == Log10Table[idx + 1]
               hi   == Log10Table[idx + 2]
           IN  FromFixed((a.e + 23) * 5050445 + lo + ((hi - lo) * frac) \div 4096, 24))

\* 2^(t / 2^20) for an integer t.
Exp2Fixed(t0) ==
    Bind(t0, LAMBDA t :
      LET n    == t \div 2^20
          f    == t % 2^20
          idx  == f \div 2^13
          frac == f % 2^13
          lo   == Exp2Table[idx + 1]
          hi   == Exp2Table[idx + 2]
      IN  RoundPack(1, 0, lo + ((hi - lo) * frac) \div 2^13, n - 23))

\* 2^(y * c / 2^22) for a float y, c = round(log2(base) * 2^22).
PowBase(y0, c) ==
    Bind(y0, LAMBDA y :
      IF IsNaN(y) THEN NaN
      ELSE IF IsInf(y) THEN (IF y.s = 1 THEN y ELSE Zero)
      ELSE IF y.m # 0 /\ y.e + 24 > 6 THEN (IF y.s = 1 THEN Inf(1) ELSE Zero)
      ELSE Bind(ToFixed(y, 20), LAMBDA yf :
           Bind(MulShift(IF yf < 0 THEN -yf ELSE yf, c, 22), LAMBDA t :
             Exp2Fixed(IF yf < 0 THEN -t ELSE t))))

\* pow(10.0f, y)
Pow10(y) == PowBase(y, 13933176)

\* exp(y); for |y| < 1/32 the series 1 + y + y^2/2 + y^3/6 + y^4/24.
Exp(y0) ==
    Bind(y0, LAMBDA y :
      IF IsFinite(y) /\ (y.m = 0 \/ y.e + 24 <= -5)
      THEN Bind(FMul(y, y), LAMBDA y2 :
             FAdd(One, FAdd(y, FAdd(Scale2(y2, -1),
                                    FAdd(FDiv(FMul(y2, y), FromInt(6)),
                                         FDiv(FMul(y2, y2), FromInt(24)))))))
      ELSE PowBase(y, 6051102))

\* n Newton steps x <- (x + a/x) / 2.
RECURSIVE Newton(_, _, _)
Newton(a0, x0, n0) ==
    Bind(<<a0, x0, n0>>, LAMBDA p :
      IF p[3] = 0 THEN p[2]
      ELSE Newton(p[1], Scale2(FAdd(p[2], FDiv(p[1], p[2])), -1), p[3] - 1))

\* sqrt(a)
Sqrt(a0) ==
    Bind(a0, LAMBDA a :
      IF IsNaN(a) THEN NaN
      ELSE IF IsZero(a) THEN Zero
      ELSE IF a.s = -1 THEN NaN
      ELSE IF IsInf(a) THEN a
      ELSE Newton(a, Flt(1, T23, ((a.e + 23) \div 2) - 23), 6))

-----------------------------------------------------------------------------
(* config.h *)

SAMPLE_RATE == 44100
NUM_BANDS == 3

\* n / d as the nearest float: the value of a decimal literal such as 0.010f.
Lit(n, d) == FDiv(FromInt(n), FromInt(d))

Two == FromInt(2)
Twenty == FromInt(20)

BandParams(threshold, ratio, knee_width, gain, attack_time, release_time) ==
    [threshold |-> threshold, ratio |-> ratio, knee_width |-> knee_width,
     gain |-> gain, attack_time |-> attack_time, release_time |-> release_time]

BAND_PARAMS ==
    << BandParams(FromInt(-50), FromInt(2), FromInt(10), FromInt(15),
                  Lit(10, 1000), Lit(100, 1000)),
       BandParams(FromInt(-45), FromInt(3), FromInt(8), FromInt(10),
                  Lit(5, 1000), Lit(50, 1000)),
       BandParams(FromInt(-40), FromInt(4), FromInt(6), FromInt(5),
                  Lit(3, 1000), Lit(25, 1000)) >>

-----------------------------------------------------------------------------
(* wdrc.cpp: class WDRC *)

\* WDRC::WDRC(): envelope(0.0f); the other fields are not initialised.
Uninit == [k |-> "uninit", s |-> 1, m |-> 0, e |-> 0]

WDRC_new ==
    [alpha_attack |-> Uninit, alpha_release |-> Uninit, envelope |-> Zero,
     threshold |-> Uninit, ratio |-> Uninit, knee_width |-> Uninit,
     band_gain |-> Uninit]

\* exp(-1.0f / (SAMPLE_RATE * time))
Alpha(time) == Exp(FDiv(FNeg(One), FMul(FromInt(SAMPLE_RATE), time)))

setParameters(w, params) ==
    [w EXCEPT !.threshold = params.threshold,
              !.ratio = params.ratio,
              !.knee_width = params.knee_width,
              !.band_gain = params.gain,
              !.alpha_attack = Alpha(params.attack_time),
              !.alpha_release = Alpha(params.release_time)]

\* pow(10.0f, db / 20.0f)
db_to_linear(db) == Pow10(FDiv(db, Twenty))

\* 1e-9f
Epsilon == Lit(1, 1000000000)

\* 20.0f * log10(fabs(linear) + 1e-9f)
linear_to_db(linear) == FMul(Twenty, Log10(FAdd(FAbs(linear), Epsilon)))

\* Step 2 of WDRC::process: the envelope after one update with input_db.
Smooth(alpha, envelope, input_db) ==
    FAdd(FMul(alpha, envelope), FMul(FSub(One, alpha), input_db))

\* variant: the attack coefficient also when input_db equals the envelope
UsesAttack_orEqual(w, input_db) == FGe(input_db, w.envelope)

UsesAttack(w, input_db) == FGt(input_db, w.envelope)

EnvelopeUpdate(w, input_db) ==
    IF UsesAttack(w, input_db)
    THEN Smooth(w.alpha_attack, w.envelope, input_db)
    ELSE Smooth(w.alpha_release, w.envelope, input_db)

\* variant: the knee formula divided by knee_width instead of 2 * knee_width
KneeGain_wholeKnee(w, diff) ==
    Bind(FAdd(diff, FDiv(w.knee_width, Two)), LAMBDA knee_factor :
      FDiv(FMul(FMul(FSub(w.ratio, One), knee_factor), knee_factor), w.knee_width))

\* Step 3: the two non-zero branches of the gain curve.
KneeGain(w, diff) ==
    Bind(FAdd(diff, FDiv(w.knee_width, Two)), LAMBDA knee_factor :
      FDiv(FMul(FMul(FSub(w.ratio, One), knee_factor), knee_factor),
           FMul(Two, w.knee_width)))

\* variant: ratio * diff
LinearGain_fullRatio(w, diff) == FMul(w.ratio, diff)

LinearGain(w, diff) == FMul(FSub(w.ratio, One), diff)

GainReduction(w, diff) ==
    IF FLe(FAbs(diff), FDiv(w.knee_width, Two)) THEN KneeGain(w, diff)
    ELSE IF FGt(diff, FDiv(w.knee_width, Two)) THEN LinearGain(w, diff)
    ELSE Zero

\* Step 4: input * db_to_linear(-gain_db + band_gain)
ApplyGain(w, input, gain_db) ==
    FMul(input, db_to_linear(FAdd(FNeg(gain_db), w.band_gain)))

\* 0.99f
Limit == Lit(99, 100)

\* Step 5: the two limiting comparisons.
Limiter(output) ==
    Bind(IF FGt(output, Limit) THEN Limit ELSE output, LAMBDA hi :
      IF FLt(hi, FNeg(Limit)) THEN FNeg(Limit) ELSE hi)

\* variant: diff taken from the envelope as it was before this call
WDRC_process_staleEnvelope(w0, input0) ==
    Bind(<<w0, input0>>, LAMBDA p :
    Bind(linear_to_db(p[2]), LAMBDA input_db :
    Bind(EnvelopeUpdate(p[1], input_db), LAMBDA envelope :
    Bind(FSub(p[1].envelope, p[1].threshold), LAMBDA diff :
    Bind(GainReduction(p[1], diff), LAMBDA gain_db :
    Bind(ApplyGain(p[1], p[2], gain_db), LAMBDA output :
      [envelope |-> envelope, input |-> p[2], input_db |-> input_db,
       attack |-> UsesAttack(p[1], input_db), before |-> p[1].envelope,
       diff |-> diff, gain_db |-> gain_db, output |-> output,
       result |-> Limiter(output)]))))))

\* WDRC::process(input): the new envelope, the locals and the returned value.
WDRC_process(w0, input0) ==
    Bind(<<w0, input0>>, LAMBDA p :
    Bind(linear_to_db(p[2]), LAMBDA input_db :
    Bind(EnvelopeUpdate(p[1], input_db), LAMBDA envelope :
    Bind(FSub(envelope, p[1].threshold), LAMBDA diff :
    Bind(GainReduction(p[1], diff), LAMBDA gain_db :
    Bind(ApplyGain(p[1], p[2], gain_db), LAMBDA output :
      [envelope |-> envelope, input |-> p[2], input_db |-> input_db,
       attack |-> UsesAttack(p[1], input_db), before |-> p[1].envelope,
       diff |-> diff, gain_db |-> gain_db, output |-> output,
       result |-> Limiter(output)]))))))

-----------------------------------------------------------------------------
(* multiband_wdrc.cpp: class MultibandWDRC                                  *)
(*                                                                          *)
(* The model instance is a 4-point transform: its twiddle factors are       *)
(* 1, -i, -1, i and its Hamming weights 0.54 - 0.46 cos(2 pi k / 3) are     *)
(* 0.08, 0.77, 0.77, 0.08, so the transform is exact on integers.  Bin k    *)
(* lies at k * 11025 Hz; bins 0 and 1 are classified, bin 2 is the Nyquist  *)
(* bin and bin 3 mirrors bin 1.  Frequencies are integers in mHz.           *)

FFT_SIZE == 4

\* work-buffer and sample values are integers in units of 1/Q
Q == 100 * 100

\* BAND_LIMITS of config.h, in mHz
BAND_LIMITS == <<250000, 1000000, 4000000, 8000000>>

\* the tables a processor is built with: the one of config.h, and tables that
\* put the bins of the 4-point instance into bands, at a band edge, or nowhere
BandTables ==
    { BAND_LIMITS,
      <<0, 250000, 4000000, 20000000>>,
      <<0, 12000000, 250000, 20000000>>,
      <<250000, 11025000, 16000000, 20000000>>,
      <<0, 250000, 1000000, 4000000>>,
      <<250000, 1000000, 4000000, 11025000>>,
      <<8000000, 4000000, 1000000, 250000>> }

Bins == 0 .. (FFT_SIZE - 1)

\* (double)i * SAMPLE_RATE / FFT_SIZE
BinFrequency(i) == (i * SAMPLE_RATE * 1000) \div FFT_SIZE

\* variant: a scan that finds nothing returns the index the loop ended with
ScanBands_pastEnd(limits, frequency, i) ==
    IF \E b \in i .. (NUM_BANDS - 1) :
          frequency >= limits[b + 1] /\ frequency < limits[b + 2]
    THEN CHOOSE b \in i .. (NUM_BANDS - 1) :
           /\ frequency >= limits[b + 1] /\ frequency < limits[b + 2]
           /\ \A c \in i .. (b - 1) :
                ~(frequency >= limits[c + 1] /\ frequency < limits[c + 2])
    ELSE NUM_BANDS

\* the loop of getBandIndex from band i on
RECURSIVE ScanBands(_, _, _)
ScanBands(limits, frequency, i) ==
    IF i >= NUM_BANDS THEN -1
    ELSE IF frequency >= limits[i + 1] /\ frequency < limits[i + 2] THEN i
    ELSE ScanBands(limits, frequency, i + 1)

\* variant: the upper limit of a band belongs to the band
getBandIndex_closedUpper(limits, frequency) ==
    IF \E b \in 0 .. (NUM_BANDS - 1) :
          frequency >= limits[b + 1] /\ frequency <= limits[b + 2]
    THEN CHOOSE b \in 0 .. (NUM_BANDS - 1) :
           /\ frequency >= limits[b + 1] /\ frequency <= limits[b + 2]
           /\ \A c \in 0 .. (b - 1) :
                ~(frequency >= limits[c + 1] /\ frequency <= limits[c + 2])
    ELSE -1

getBandIndex(limits, frequency) == ScanBands(limits, frequency, 0)

RoundDiv(a, b) ==
    IF a >= 0 THEN (2 * a + b) \div (2 * b) ELSE -((b - 2 * a) \div (2 * b))

\* Hamming weights of the 4-point window, in percent
HammingPct == <<8, 77, 77, 8>>

\* FFT->windowing(FFT_WIN_TYP_HAMMING, FFT_FORWARD)
windowing(self0) ==
    Bind(self0, LAMBDA self :
      [self EXCEPT !.real = [k \in Bins |-> RoundDiv(self.real[k] * HammingPct[k + 1], 100)]])

\* cos and sin of k quarter turns
CosQ(k) == <<1, 0, -1, 0>>[(k % 4) + 1]
SinQ(k) == <<0, 1, 0, -1>>[(k % 4) + 1]

RECURSIVE SumOver(_, _)
SumOver(f0, n0) ==
    Bind(<<f0, n0>>, LAMBDA p :
      IF p[2] < 0 THEN 0 ELSE p[1][p[2]] + SumOver(p[1], p[2] - 1))

\* FFT->compute(dir): the unscaled transform, forward (dir = 1) or reverse (dir = -1)
compute(self0, dir) ==
    Bind(self0, LAMBDA self :
      [self EXCEPT
         !.real = [k \in Bins |->
                     SumOver([n \in Bins |-> self.real[n] * CosQ(n * k)
                                             + dir * self.imag[n] * SinQ(n * k)],
                             FFT_SIZE - 1)],
         !.imag = [k \in Bins |->
                     SumOver([n \in Bins |-> self.imag[n] * CosQ(n * k)
                                             - dir * self.real[n] * SinQ(n * k)],
                             FFT_SIZE - 1)]])

\* a work-buffer value as a float, and back (nearest integer)
ToFloat(v) == FDiv(FromInt(v), FromInt(Q))
FromFloat(a0) ==
    Bind(a0, LAMBDA a : IF IsFinite(a) THEN ToFixed(FMul(a, FromInt(Q)), 0) ELSE 0)

\* variant: the tail of real[] beyond the block keeps its old content
prepare_noPadding(self, input, size) ==
    [self EXCEPT !.real = [k \in Bins |-> IF k < size THEN input[k] ELSE self.real[k]],
                 !.imag = [k \in Bins |-> 0]]

\* variant: every call starts the envelopes afresh
prepare_resetEnvelopes(self, input, size) ==
    [self EXCEPT !.real = [k \in Bins |-> IF k < size THEN input[k] ELSE 0],
                 !.imag = [k \in Bins |-> 0],
                 !.wdrc_bands = [b \in DOMAIN self.wdrc_bands |->
                                   [self.wdrc_bands[b] EXCEPT !.envelope = Zero]]]

\* step 1 of process: copy the block, pad with zeros, clear imag
prepare(self, input, size) ==
    [self EXCEPT !.real = [k \in Bins |-> IF k < size THEN input[k] ELSE 0],
                 !.imag = [k \in Bins |-> 0]]

\* step 2 of process
analyze(self) == compute(windowing(self), 1)

\* sqrt(real[i]^2 + imag[i]^2), and cos / sin of atan2(imag[i], real[i])
SumSquares(self, i) == self.real[i] * self.real[i] + self.imag[i] * self.imag[i]
Magnitude(self, i) == FDiv(Sqrt(FromInt(SumSquares(self, i))), FromInt(Q))
CosPhase(self, i) ==
    IF SumSquares(self, i) = 0 THEN One
    ELSE FDiv(FromInt(self.real[i]), Sqrt(FromInt(SumSquares(self, i))))
SinPhase(self, i) ==
    IF SumSquares(self, i) = 0 THEN Zero
    ELSE FDiv(FromInt(self.imag[i]), Sqrt(FromInt(SumSquares(self, i))))

\* variant: one envelope follower shared by all bands
CompressBin_sharedEnvelope(self, i, band) ==
    Bind(WDRC_process(self.wdrc_bands[band], Magnitude(self, i)), LAMBDA r :
      [self EXCEPT
         !.wdrc_bands = [b \in DOMAIN self.wdrc_bands |->
                           [self.wdrc_bands[b] EXCEPT !.envelope = r.envelope]]])

\* variant: the release coefficient is rewritten on every bin
CompressBin_retune(self, i, band) ==
    Bind(WDRC_process(self.wdrc_bands[band], Magnitude(self, i)), LAMBDA r :
      [self EXCEPT
         !.wdrc_bands[band].envelope = r.envelope,
         !.wdrc_bands[band].alpha_release = self.wdrc_bands[band].alpha_attack])

\* variant: the envelope is advanced once per block, by the first bin only
CompressBin_oncePerBlock(self, i, band) ==
    Bind(WDRC_process(self.wdrc_bands[band], Magnitude(self, i)), LAMBDA r :
    Bind(FromFloat(FMul(r.result, CosPhase(self, i))), LAMBDA re :
    Bind(FromFloat(FMul(r.result, SinPhase(self, i))), LAMBDA im :
      [self EXCEPT
         !.wdrc_bands[band].envelope = IF i = 0 THEN r.envelope ELSE @,
         !.real = [k \in Bins |-> IF k = i \/ (i # 0 /\ k = FFT_SIZE - i)
                                  THEN re ELSE self.real[k]],
         !.imag = [k \in Bins |-> IF k = i THEN im
                                  ELSE IF i # 0 /\ k = FFT_SIZE - i THEN -im
                                  ELSE self.imag[k]]])))

\* variant: the mirror bin gets imag[i], not its negative
CompressBin_plainMirror(self, i, band) ==
    Bind(WDRC_process(self.wdrc_bands[band], Magnitude(self, i)), LAMBDA r :
    Bind(FromFloat(FMul(r.result, CosPhase(self, i))), LAMBDA re :
    Bind(FromFloat(FMul(r.result, SinPhase(self, i))), LAMBDA im :
      [self EXCEPT
         !.wdrc_bands[band].envelope = r.envelope,
         !.real = [k \in Bins |-> IF k = i \/ (i # 0 /\ k = FFT_SIZE - i)
                                  THEN re ELSE self.real[k]],
         !.imag = [k \in Bins |-> IF k = i \/ (i # 0 /\ k = FFT_SIZE - i)
                                  THEN im ELSE self.imag[k]]])))

\* the body of the `if (band >= 0)` of step 3, for bin i in band `band`
CompressBin(self, i, band) ==
    Bind(WDRC_process(self.wdrc_bands[band], Magnitude(self, i)), LAMBDA r :
    Bind(FromFloat(FMul(r.result, CosPhase(self, i))), LAMBDA re :
    Bind(FromFloat(FMul(r.result, SinPhase(self, i))), LAMBDA im :
      [self EXCEPT
         !.wdrc_bands[band].envelope = r.envelope,
         !.real = [k \in Bins |-> IF k = i \/ (i # 0 /\ k = FFT_SIZE - i)
                                  THEN re ELSE self.real[k]],
         !.imag = [k \in Bins |-> IF k = i THEN im
                                  ELSE IF i # 0 /\ k = FFT_SIZE - i THEN -im
                                  ELSE self.imag[k]]])))

\* variant: a bin outside every band is compressed by band 0
ProcessBin_everyBin(self, limits, i) ==
    IF getBandIndex(limits, BinFrequency(i)) >= 0
    THEN CompressBin(self, i, getBandIndex(limits, BinFrequency(i)))
    ELSE CompressBin(self, i, 0)

\* one iteration of the loop of step 3
ProcessBin(self, limits, i) ==
    IF getBandIndex(limits, BinFrequency(i)) >= 0
    THEN CompressBin(self, i, getBandIndex(limits, BinFrequency(i)))
    ELSE self

\* step 4 of process
synthesize(self) == compute(self, -1)

\* what a read of real[k] past the end of the array can yield: the member that
\* follows real[] in the object, or any other value
PastTheEnd(self, k) == {self.imag[k - FFT_SIZE], 12345}

\* variant: the whole work buffer is copied out, whatever the block size
normalize_wholeBuffer(self, output, size, junk) ==
    [k \in DOMAIN output |->
       IF k < FFT_SIZE THEN RoundDiv(self.real[k], FFT_SIZE) ELSE output[k]]

\* step 5 of process: output[k] = real[k] / FFT_SIZE for k < size, where a read
\* past the end of real[] yields junk[k]
normalize(self, output, size, junk) ==
    [k \in DOMAIN output |->
       IF k >= size THEN output[k]
       ELSE IF k < FFT_SIZE THEN RoundDiv(self.real[k], FFT_SIZE)
       ELSE RoundDiv(junk[k], FFT_SIZE)]

-----------------------------------------------------------------------------
(* State                                                                    *)

VARIABLES
    pc,        \* position of the MultibandWDRC object: constructor or process step
    i,         \* loop index of the constructor loop and of the bin loop
    mb,        \* the MultibandWDRC object: FFT, wdrc_bands, real, imag
    limits,    \* the band table the processor classifies with
    input,     \* the caller's input block of the current process call
    size,      \* its length
    output,    \* the caller's output buffer
    calls,     \* number of process calls started
    analysed,  \* history: real / imag as the forward transform left them
    oob,       \* history: indices past the end of real[] that process has read
    w,         \* a stand-alone WDRC object
    last,      \* history: the quantities of its latest process call
    wcalls,    \* number of process calls on w
    held,      \* the input magnitude a caller keeps feeding to w
    frequency, \* argument of a getBandIndex call
    band,      \* its result
    objects,   \* MultibandWDRC instances: alive or not, and their member FFT
    heap,      \* the ArduinoFFT objects made by new: free, allocated, released
    misuse,    \* history: deletes of a released object, uses of a released object
    i2s_hardware_initialized,  \* static flag of audio_hardware.cpp
    audio_streams_running,     \* static flag of audio_hardware.cpp
    driver,    \* per I2S port: no driver, driver installed, pins configured
    started,   \* per I2S port: whether the port is running
    task,      \* per task: the statement of audio_hardware.cpp it is at
    redundant, \* history: i2s_start on a running port, i2s_stop on a stopped one
    init_result, \* history: how the latest initialize_i2s_hardware call ended
    start_result, \* history: how the latest start_audio_streams call ended
    millis,    \* the value millis() returns
    pip_system, \* static PipSystem pip_system of button_control.cpp
    sequence,  \* history: the pip sequence started last: pips asked for, tone
               \* samples played, stopped or not
    buffer,    \* the buffer of the current process_pip_audio call
    audio,     \* the audio task (core 0): statement, loop index, return value
    ctrl,      \* the control task (core 1): statement of start / stop_pip_sequence
    btn_gain_up_flag, btn_gain_down_flag, btn_sleep_flag, last_interrupt_time,
    btn_sleep_press_start, btn_sleep_held, sleep_sequence_started,
               \* globals of button_control.cpp
    current_gain_level, gain_factor, audio_processing_active, system_sleeping,
               \* globals of audio_config.cpp
    sleep_pin, \* level of the BTN_SLEEP pin ("LOW" while the button is down)
    control,   \* the control task: "running", or "asleep" inside enter_sleep_mode
    since_poll, \* what happened since handle_button_events was called last:
               \* "nothing", a clock "tick", or a button "edge"
    handled,   \* history: the gain presses the latest handle_button_events handled
    hold,      \* history of the recorded hold of the sleep button
    at_sleep,  \* history: gain level and factor when sleep was entered
    nvs_initialized, \* static bool nvs_initialized of serial_commands.cpp
    nvs,       \* the blobs of the NVS namespace "audio_config", by key
    current_config, \* static AudioConfig current_config
    serial     \* history: the line handle_serial_commands handled in the latest
               \* step, the result of its NVS call and its outcome

vars == <<pc, i, mb, limits, input, size, output, calls, analysed, oob,
          w, last, wcalls, held, frequency, band, objects, heap, misuse,
          i2s_hardware_initialized, audio_streams_running, driver, started,
          task, redundant, init_result, start_result,
          millis, pip_system, sequence, buffer, audio, ctrl,
          btn_gain_up_flag, btn_gain_down_flag, btn_sleep_flag,
          last_interrupt_time, btn_sleep_press_start, btn_sleep_held,
          sleep_sequence_started, current_gain_level, gain_factor,
          audio_processing_active, system_sleeping, sleep_pin, control, since_poll,
          handled, hold, at_sleep, nvs_initialized, nvs, current_config, serial>>

mbVars == <<pc, i, mb, limits, input, size, output, calls, analysed, oob>>
wVars == <<w, last, wcalls, held>>
gVars == <<frequency, band>>
oVars == <<objects, heap, misuse>>
hVars == <<i2s_hardware_initialized, audio_streams_running, driver, started,
           task, redundant, init_result, start_result>>
pVars == <<millis, pip_system, sequence>>
aVars == <<buffer, audio, ctrl>>
bVars == <<btn_gain_up_flag, btn_gain_down_flag, btn_sleep_flag,
           last_interrupt_time, btn_sleep_press_start, btn_sleep_held,
           sleep_sequence_started, current_gain_level, gain_factor,
           audio_processing_active, system_sleeping, sleep_pin, control, since_poll,
           handled, hold, at_sleep>>
sVars == <<nvs_initialized, nvs, current_config, serial>>
xVars == <<pVars, aVars, bVars, sVars>>

MaxCalls == 2
MaxWdrcCalls == 2

\* length of the longest block, and of the caller's output buffer
MaxSize == FFT_SIZE + 1

Bands == 0 .. (NUM_BANDS - 1)
Zeros == [k \in Bins |-> 0]
Arr(seq) == [k \in 0 .. (Len(seq) - 1) |-> seq[k + 1]]

\* blocks a caller passes to process, samples in units of 1/Q; the last one
\* is one sample longer than the work buffers
Blocks ==
    { <<10000, 10000, 10000, 10000, 10000>>,
      <<>>,
      <<10000>>,
      <<2000, 4000>>,
      <<10000, 10000, 10000, 10000>>,
      <<5000, -5000, 5000, -5000>>,
      <<10000, 0, -10000, 0>>,
      <<100, 300, -100, 200>> }

\* members as the constructors of the members leave them, before the body of
\* MultibandWDRC::MultibandWDRC runs; the arrays real / imag are not initialised
MultibandWDRC_new(fill) ==
    [FFT |-> "null", wdrc_bands |-> [b \in Bands |-> WDRC_new],
     real |-> [k \in Bins |-> fill], imag |-> [k \in Bins |-> fill]]

NoCall == [called |-> FALSE]

mbIdle ==
    /\ pc = "off" /\ i = 0 /\ mb = MultibandWDRC_new(0)
    /\ input = <<>> /\ size = 0 /\ output = Zeros /\ calls = 0
    /\ analysed = [real |-> Zeros, imag |-> Zeros]
    /\ oob = {}

wIdle == w = WDRC_new /\ last = NoCall /\ wcalls = 0 /\ held = Zero

gIdle == frequency = 0 /\ band = -1

\* storage for MultibandWDRC instances, and the transform objects new can make
MaxInstances == 2
MaxTransforms == 3
Slots == 1 .. MaxInstances
Transforms == 1 .. MaxTransforms

\* the null pointer
nullptr == 0

NoObject == [live |-> FALSE, FFT |-> nullptr]

oIdle ==
    /\ objects = [s \in Slots |-> NoObject]
    /\ heap = [t \in Transforms |-> "free"]
    /\ misuse = {}

\* the two I2S ports, and the tasks that call into audio_hardware.cpp: the
\* Arduino task (setup / loop) and a task on the other core
Ports == {"MIC", "DAC"}
Tasks == {"loop", "other"}

\* PIP_SAMPLES: samples of one pip (SAMPLE_RATE * 200 / 1000 in the program,
\* 2 in this instance); PIP_GAP_MS: silence between two pips
PIP_SAMPLES == 2
PIP_GAP_MS == 100

\* samples of a process_pip_audio call
NumSamples == 3

\* longest pip sequence the control task asks for here, and the number of
\* clock ticks (of half a gap each) a run lasts
MaxPips == 2
MaxTicks == 2

\* content of a buffer element process_pip_audio has not written
Untouched == 7777

\* static PipSystem pip_system = {false, 0, 0, 0, 0, 0, false, 0.0}
PipSystem_new ==
    [active |-> FALSE, total_pips |-> 0, remaining_pips |-> 0,
     samples_in_current_pip |-> 0, pip_start_time |-> 0, pip_gap_start |-> 0,
     in_gap |-> FALSE, phase |-> 0]

NoSequence == [n |-> 0, tone |-> 0, stopped |-> FALSE]

pIdle == millis = 0 /\ pip_system = PipSystem_new /\ sequence = NoSequence

aIdle ==
    /\ buffer = [k \in 0 .. (NumSamples - 1) |-> Untouched]
    /\ audio = [pc |-> "idle", i |-> 0, was_active |-> FALSE, ret |-> "none"]
    /\ ctrl = [pc |-> "idle", n |-> 0]

\* DEBOUNCE_DELAY and SLEEP_HOLD_TIME of button_control.cpp, in ms; WarningHold
\* is the hold after which handle_sleep_button starts the warning pips
DEBOUNCE_DELAY == 50
SLEEP_HOLD_TIME == 3000
WarningHold == 1000

\* gain_levels[5] = {0.0f, 0.25f, 0.50f, 0.75f, 1.0f}, in percent
gain_levels == <<0, 25, 50, 75, 100>>

\* the clock advances by half a debounce delay or by a whole warning hold, up
\* to one warning hold past the sleep hold time
ShortStep == DEBOUNCE_DELAY \div 2
LongStep == WarningHold
MaxMillis == SLEEP_HOLD_TIME + WarningHold
MaxShortSteps == 2

NoHold == [released |-> FALSE, warning |-> FALSE, warnings |-> 0]

\* the state of button_control.cpp at start-up, with no button pressed
bIdle ==
    /\ btn_gain_up_flag = FALSE /\ btn_gain_down_flag = FALSE
    /\ btn_sleep_flag = FALSE
    /\ last_interrupt_time = 0
    /\ btn_sleep_press_start = 0
    /\ btn_sleep_held = FALSE
    /\ sleep_sequence_started = FALSE
    /\ current_gain_level = 2 /\ gain_factor = gain_levels[3]
    /\ audio_processing_active = TRUE
    /\ system_sleeping = FALSE
    /\ sleep_pin = "HIGH"
    /\ control = "running"
    /\ since_poll = "nothing"
    /\ handled = <<>>
    /\ hold = NoHold
    /\ at_sleep = <<>>

\* AudioConfig of serial_commands.cpp: version, gain_level, one of the
\* parameters still unused (highpass_enabled, as a byte) and checksum
AudioConfig(version, level, highpass, checksum) ==
    [version |-> version, gain_level |-> level, highpass_enabled |-> highpass,
     checksum |-> checksum]

default_config == AudioConfig(1, 2, 0, 0)

\* no blob under a key of the NVS namespace
NoBlob == [version |-> 0, gain_level |-> 0, highpass_enabled |-> 0, checksum |-> 1]

\* strings are sequences of characters
W_default == <<"d", "e", "f", "a", "u", "l", "t">>
W_delete_preset == <<"d", "e", "l", "e", "t", "e", "_", "p", "r", "e", "s", "e", "t">>
W_save_preset == <<"s", "a", "v", "e", "_", "p", "r", "e", "s", "e", "t">>
W_load_preset == <<"l", "o", "a", "d", "_", "p", "r", "e", "s", "e", "t">>
W_set_gain_level == <<"s", "e", "t", "_", "g", "a", "i", "n", "_", "l", "e", "v", "e", "l">>
W_reset == <<"r", "e", "s", "e", "t">>
W_other == <<"a">>

NoCommand == [line |-> <<>>, err |-> "none", ret |-> "none"]

\* serial_commands.cpp before initialize_serial_interface
sIdle ==
    /\ nvs_initialized = FALSE
    /\ nvs = <<>>
    /\ current_config = default_config
    /\ serial = NoCommand

xIdle == pIdle /\ aIdle /\ bIdle /\ sIdle

\* the state of audio_hardware.cpp and of the ports at power-up
hIdle ==
    /\ i2s_hardware_initialized = FALSE
    /\ audio_streams_running = FALSE
    /\ driver = [p \in Ports |-> "none"]
    /\ started = [p \in Ports |-> FALSE]
    /\ task = [t \in Tasks |-> "idle"]
    /\ redundant = {}
    /\ init_result = "none"
    /\ start_result = "none"

-----------------------------------------------------------------------------
(* MultibandWDRC: constructor and process                                   *)

Init ==
    /\ pc = "construct" /\ i = 0
    /\ \E fill \in {0, 12345} : mb = MultibandWDRC_new(fill)
    /\ limits \in BandTables
    /\ input = <<>> /\ size = 0
    /\ output = [k \in 0 .. (MaxSize - 1) |-> -7777]
    /\ calls = 0
    /\ analysed = [real |-> Zeros, imag |-> Zeros]
    /\ oob = {}
    /\ wIdle /\ gIdle /\ oIdle /\ hIdle /\ xIdle

\* the outcomes of a new-expression: a pointer to the constructed object, or no
\* return at all (std::bad_alloc is thrown, or the program is terminated where
\* exceptions are disabled); a plain new-expression never yields a null pointer
NewOutcomes == {"fft", "bad_alloc"}

\* a constructor that would go on with a null pointer when the allocation fails
Allocate_nullOnFailure(self, outcome) ==
    [pc |-> "setParameters",
     mb |-> [self EXCEPT !.FFT = IF outcome = "fft" THEN "fft" ELSE "null"]]

\* FFT = new ArduinoFFT<double>(...): on failure the constructor is left at
\* once and no MultibandWDRC object comes into existence
Allocate(self, outcome) ==
    IF outcome = "fft"
    THEN [pc |-> "setParameters", mb |-> [self EXCEPT !.FFT = "fft"]]
    ELSE [pc |-> "failed", mb |-> self]

\* FFT = new ArduinoFFT<double>(real, imag, FFT_SIZE, SAMPLE_RATE)
NewFFT ==
    /\ pc = "construct"
    /\ \E outcome \in NewOutcomes :
         /\ mb' = Allocate(mb, outcome).mb
         /\ pc' = Allocate(mb, outcome).pc
    /\ i' = 0
    /\ UNCHANGED <<limits, input, size, output, calls, analysed, oob>>
    /\ UNCHANGED <<wVars, gVars, oVars, hVars, xVars>>

\* for (i < NUM_BANDS) wdrc_bands[i].setParameters(BAND_PARAMS[i])
SetBandParameters ==
    /\ pc = "setParameters"
    /\ i < NUM_BANDS
    /\ mb' = [mb EXCEPT !.wdrc_bands[i] = setParameters(mb.wdrc_bands[i], BAND_PARAMS[i + 1])]
    /\ i' = i + 1
    /\ pc' = IF i + 1 < NUM_BANDS THEN "setParameters" ELSE "idle"
    /\ UNCHANGED <<limits, input, size, output, calls, analysed, oob>>
    /\ UNCHANGED <<wVars, gVars, oVars, hVars, xVars>>

\* a caller enters process(input, output, size)
Call ==
    /\ pc = "idle"
    /\ calls < MaxCalls
    /\ \E block \in Blocks : input' = Arr(block) /\ size' = Len(block)
    /\ calls' = calls + 1
    /\ pc' = "prepare"
    /\ UNCHANGED <<i, mb, limits, output, analysed, oob>>
    /\ UNCHANGED <<wVars, gVars, oVars, hVars, xVars>>

Prepare ==
    /\ pc = "prepare"
    /\ mb' = prepare(mb, input, size)
    /\ pc' = "analyze"
    /\ UNCHANGED <<i, limits, input, size, output, calls, analysed, oob>>
    /\ UNCHANGED <<wVars, gVars, oVars, hVars, xVars>>

Analyze ==
    /\ pc = "analyze"
    /\ mb' = analyze(mb)
    /\ analysed' = [real |-> mb'.real, imag |-> mb'.imag]
    /\ i' = 0
    /\ pc' = "bins"
    /\ UNCHANGED <<limits, input, size, output, calls, oob>>
    /\ UNCHANGED <<wVars, gVars, oVars, hVars, xVars>>

\* for (i < FFT_SIZE / 2)
Bin ==
    /\ pc = "bins"
    /\ i < FFT_SIZE \div 2
    /\ mb' = ProcessBin(mb, limits, i)
    /\ i' = i + 1
    /\ pc' = IF i + 1 < FFT_SIZE \div 2 THEN "bins" ELSE "synthesize"
    /\ UNCHANGED <<limits, input, size, output, calls, analysed, oob>>
    /\ UNCHANGED <<wVars, gVars, oVars, hVars, xVars>>

Synthesize ==
    /\ pc = "synthesize"
    /\ mb' = synthesize(mb)
    /\ pc' = "normalize"
    /\ UNCHANGED <<i, limits, input, size, output, calls, analysed, oob>>
    /\ UNCHANGED <<wVars, gVars, oVars, hVars, xVars>>

Normalize ==
    /\ pc = "normalize"
    /\ \E junk \in [FFT_SIZE .. (size - 1) -> UNION {PastTheEnd(mb, k) : k \in FFT_SIZE .. (size - 1)}] :
         /\ \A k \in DOMAIN junk : junk[k] \in PastTheEnd(mb, k)
         /\ output' = normalize(mb, output, size, junk)
    /\ oob' = oob \cup (FFT_SIZE .. (size - 1))
    /\ pc' = "idle"
    /\ UNCHANGED <<i, mb, limits, input, size, calls, analysed>>
    /\ UNCHANGED <<wVars, gVars, oVars, hVars, xVars>>

Next ==
    \/ NewFFT
    \/ SetBandParameters
    \/ Call
    \/ Prepare
    \/ Analyze
    \/ Bin
    \/ Synthesize
    \/ Normalize

Spec == Init /\ [][Next]_vars

-----------------------------------------------------------------------------
(* getBandIndex on its own                                                  *)

\* frequencies in mHz: the edges of the tables, their neighbours, the bins
ProbeFrequencies ==
    { 0, 1, 249999, 250000, 250001, 999999, 1000000, 1000001, 3999999,
      4000000, 4000001, 7999999, 8000000, 8000001, 11025000, 12000000,
      16000000, 19999999, 20000000, 22050000 }

\* tables with equal neighbours (empty bands)
MalformedTables ==
    { <<250000, 250000, 4000000, 4000000>>,
      <<1000000, 1000000, 1000000, 1000000>>,
      <<4000000, 250000, 250000, 8000000>> }

InitClassify ==
    /\ mbIdle /\ wIdle /\ oIdle /\ hIdle /\ xIdle
    /\ limits \in BandTables \cup MalformedTables
    /\ frequency \in ProbeFrequencies
    /\ band = -2

Classify ==
    /\ band = -2
    /\ band' = getBandIndex(limits, frequency)
    /\ UNCHANGED <<pc, i, mb, limits, input, size, output, calls, analysed, oob>>
    /\ UNCHANGED <<wVars, frequency, oVars, hVars, xVars>>

NextClassify == Classify

SpecClassify == InitClassify /\ [][NextClassify]_vars

-----------------------------------------------------------------------------
(* One WDRC object on its own                                               *)

\* parameter sets a compressor is configured with: those of config.h; with
\* no knee; and sets whose threshold is half a knee below or above 0 dB, so
\* that a full-scale input on a fresh compressor lands on a knee edge
Edge(ratio, knee_width, side) ==
    BandParams(FMul(FromInt(side), FDiv(knee_width, Two)), ratio, knee_width,
               Zero, Lit(10, 1000), Lit(100, 1000))

ParamSets ==
    { BAND_PARAMS[1], BAND_PARAMS[2], BAND_PARAMS[3],
      BandParams(Zero, Two, Zero, Zero, Lit(10, 1000), Lit(100, 1000)),
      Edge(FromInt(2), FromInt(10), -1), Edge(FromInt(3), FromInt(8), -1),
      Edge(FromInt(4), FromInt(6), -1), Edge(FromInt(3), Lit(1, 10), -1),
      Edge(FromInt(4), Lit(3, 10), -1), Edge(One, FromInt(10), -1),
      Edge(FromInt(2), FromInt(10), 1), Edge(FromInt(3), Lit(1, 10), 1) }

\* input magnitudes
Inputs == { Zero, One, FNeg(One), Lit(1, 2), Lit(17, 10), Lit(1, 1000) }

\* band 0 after 806 calls with input 0.0 since construction: envelope -30.0676
AfterSilence806 ==
    [setParameters(WDRC_new, BAND_PARAMS[1]) EXCEPT !.envelope = Flt(-1, 15764082, -19)]

\* band 0 after 37000 calls with input 0.0 since construction: envelope -179.98206
AfterSilence37000 ==
    [setParameters(WDRC_new, BAND_PARAMS[1]) EXCEPT !.envelope = Flt(-1, 11795304, -16)]

Configured(c) == c.threshold # Uninit

\* the record of one process call on compressor c
CallRecord(c, x) == [called |-> TRUE] @@ WDRC_process(c, x)

InitWdrc ==
    /\ mbIdle /\ limits = BAND_LIMITS /\ gIdle /\ oIdle /\ hIdle /\ xIdle
    /\ w \in {WDRC_new, AfterSilence806}
    /\ last = NoCall
    /\ wcalls = 0
    /\ held = Zero

\* the owner configures a compressor once, right after constructing it
Configure ==
    /\ w = WDRC_new
    /\ \E params \in ParamSets : w' = setParameters(w, params)
    /\ UNCHANGED <<last, wcalls, held>>
    /\ UNCHANGED <<mbVars, gVars, oVars, hVars, xVars>>

Process ==
    /\ Configured(w)
    /\ wcalls < MaxWdrcCalls
    /\ \E x \in Inputs : last' = CallRecord(w, x)
    /\ w' = [w EXCEPT !.envelope = last'.envelope]
    /\ wcalls' = wcalls + 1
    /\ UNCHANGED held
    /\ UNCHANGED <<mbVars, gVars, oVars, hVars, xVars>>

NextWdrc == Configure \/ Process

SpecWdrc == InitWdrc /\ [][NextWdrc]_vars

-----------------------------------------------------------------------------
(* One WDRC object fed a constant input magnitude, call after call          *)

InitConverge ==
    /\ mbIdle /\ limits = BAND_LIMITS /\ gIdle /\ oIdle /\ hIdle /\ xIdle
    /\ \/ w = AfterSilence37000 /\ held = Zero
       \/ w = setParameters(WDRC_new, BAND_PARAMS[1]) /\ held = One
    /\ last = NoCall
    /\ wcalls = 0

\* calls are counted modulo 2 here
Hold ==
    /\ last' = CallRecord(w, held)
    /\ w' = [w EXCEPT !.envelope = last'.envelope]
    /\ wcalls' = (wcalls + 1) % 2
    /\ UNCHANGED held
    /\ UNCHANGED <<mbVars, gVars, oVars, hVars, xVars>>

NextConverge == Hold

\* the caller never stops calling
SpecConverge == InitConverge /\ [][NextConverge]_vars /\ WF_vars(Hold)

-----------------------------------------------------------------------------
(* One WDRC object followed call by call, from envelopes silence leads to   *)

\* band 0 after 8828 calls with input 0.0 since construction: envelope -155.69294
AfterSilence8828 ==
    [setParameters(WDRC_new, BAND_PARAMS[1]) EXCEPT !.envelope = Flt(-1, 10203493, -16)]

\* 1.5419221e-8f, the magnitude whose level linear_to_db gives as -155.69294
LevelOfSilence8828 == Flt(1, 8680250, -49)

FollowInputs == Inputs \cup {LevelOfSilence8828, Lit(1, 4)}

MaxFollowCalls == 2

InitEnvelope ==
    /\ mbIdle /\ limits = BAND_LIMITS /\ gIdle /\ oIdle /\ hIdle /\ xIdle
    /\ w \in {setParameters(WDRC_new, BAND_PARAMS[1]), AfterSilence806, AfterSilence8828}
    /\ last = NoCall
    /\ wcalls = 0
    /\ held = Zero

\* one call of process on the compressor
Follow ==
    /\ wcalls < MaxFollowCalls
    /\ \E x \in FollowInputs : last' = CallRecord(w, x)
    /\ w' = [w EXCEPT !.envelope = last'.envelope]
    /\ wcalls' = wcalls + 1
    /\ UNCHANGED held
    /\ UNCHANGED <<mbVars, gVars, oVars, hVars, xVars>>

NextEnvelope == Follow

SpecEnvelope == InitEnvelope /\ [][NextEnvelope]_vars

-----------------------------------------------------------------------------
(* Lifetime of MultibandWDRC instances and of their transform objects       *)

\* delete p
Delete(h, p) == [h EXCEPT ![p] = "released"]

\* MultibandWDRC::MultibandWDRC(): FFT = new ArduinoFFT<double>(...)
Construct ==
    \E s \in Slots, t \in Transforms :
      /\ ~objects[s].live
      /\ heap[t] = "free"
      /\ heap' = [heap EXCEPT ![t] = "allocated"]
      /\ objects' = [objects EXCEPT ![s] = [live |-> TRUE, FFT |-> t]]
      /\ UNCHANGED misuse
      /\ UNCHANGED <<mbVars, wVars, gVars, hVars, xVars>>

\* MultibandWDRC d = s: the class declares no copy constructor, so the implicit
\* one copies every member, the pointer FFT included
Copy ==
    \E s \in Slots, d \in Slots :
      /\ objects[s].live /\ ~objects[d].live
      /\ objects' = [objects EXCEPT ![d] = [live |-> TRUE, FFT |-> objects[s].FFT]]
      /\ UNCHANGED <<heap, misuse>>
      /\ UNCHANGED <<mbVars, wVars, gVars, hVars, xVars>>

\* d = s: the implicit copy assignment, member by member
Assign ==
    \E s \in Slots, d \in Slots :
      /\ objects[s].live /\ objects[d].live /\ s # d
      /\ objects' = [objects EXCEPT ![d].FFT = objects[s].FFT]
      /\ UNCHANGED <<heap, misuse>>
      /\ UNCHANGED <<mbVars, wVars, gVars, hVars, xVars>>

\* MultibandWDRC::~MultibandWDRC(): if (FFT != nullptr) delete FFT
Destroy ==
    \E s \in Slots :
      /\ objects[s].live
      /\ objects' = [objects EXCEPT ![s] = NoObject]
      /\ IF objects[s].FFT = nullptr
         THEN UNCHANGED <<heap, misuse>>
         ELSE /\ heap' = Delete(heap, objects[s].FFT)
              /\ misuse' = IF heap[objects[s].FFT] = "released"
                           THEN misuse \cup {"released twice"} ELSE misuse
      /\ UNCHANGED <<mbVars, wVars, gVars, hVars, xVars>>

\* process(...): FFT->windowing(...), FFT->compute(...)
Use ==
    \E s \in Slots :
      /\ objects[s].live
      /\ misuse' = IF heap[objects[s].FFT] = "released"
                   THEN misuse \cup {"used after release"} ELSE misuse
      /\ UNCHANGED <<objects, heap>>
      /\ UNCHANGED <<mbVars, wVars, gVars, hVars, xVars>>

InitOwnership ==
    /\ mbIdle /\ limits = BAND_LIMITS /\ wIdle /\ gIdle /\ oIdle /\ hIdle /\ xIdle

NextOwnership ==
    \/ Construct
    \/ Copy
    \/ Assign
    \/ Destroy
    \/ Use

SpecOwnership == InitOwnership /\ [][NextOwnership]_vars

-----------------------------------------------------------------------------
(* audio_hardware.cpp: initialize_i2s_hardware, start / stop_audio_streams   *)

\* esp_err_t results of the driver calls
ESP_OK == "ESP_OK"
ESP_FAIL == "ESP_FAIL"
Errors == {ESP_OK, ESP_FAIL}

\* i2s_driver_uninstall(port)
Uninstall(drv, port) == [drv EXCEPT ![port] = "none"]

\* variant: a failure of the DAC leaves the microphone driver installed
DacFailed_keepMic(drv) == drv

\* initialize_i2s_hardware when configure_dac has failed
DacFailed(drv) == Uninstall(drv, "MIC")

\* the statement a task is at becomes `to`
Goto(t, to) == task' = [task EXCEPT ![t] = to]

hFrame == UNCHANGED <<mbVars, wVars, gVars, oVars, xVars>>

\* a task calls one of the public functions; initialize_i2s_hardware is called
\* by the Arduino task only
CallHardware(t) ==
    /\ task[t] = "idle"
    /\ \E f \in {"initialize", "start", "stop"} :
         /\ f = "initialize" => t = "loop"
         /\ Goto(t, f)
    /\ UNCHANGED <<i2s_hardware_initialized, audio_streams_running, driver,
                   started, redundant, init_result, start_result>>
    /\ hFrame

\* if (i2s_hardware_initialized) return;
InitCheck(t) ==
    /\ task[t] = "initialize"
    /\ IF i2s_hardware_initialized
       THEN Goto(t, "idle") /\ init_result' = "already"
       ELSE Goto(t, "mic_install") /\ UNCHANGED init_result
    /\ UNCHANGED <<i2s_hardware_initialized, audio_streams_running, driver,
                   started, redundant>>
    /\ UNCHANGED start_result
    /\ hFrame

\* configure_microphone: i2s_driver_install(I2S_PORT_MIC, ...)
MicInstall(t) ==
    /\ task[t] = "mic_install"
    /\ \E err \in Errors :
         IF err = ESP_OK /\ driver["MIC"] = "none"
         THEN /\ driver' = [driver EXCEPT !["MIC"] = "installed"]
              /\ Goto(t, "mic_pin") /\ UNCHANGED init_result
         ELSE /\ Goto(t, "idle") /\ init_result' = "mic_install"
              /\ UNCHANGED driver
    /\ UNCHANGED <<i2s_hardware_initialized, audio_streams_running, started,
                   redundant>>
    /\ UNCHANGED start_result
    /\ hFrame

\* configure_microphone: i2s_set_pin(I2S_PORT_MIC, ...)
MicPin(t) ==
    /\ task[t] = "mic_pin"
    /\ \E err \in Errors :
         IF err = ESP_OK
         THEN /\ driver' = [driver EXCEPT !["MIC"] = "configured"]
              /\ Goto(t, "dac_install") /\ UNCHANGED init_result
         ELSE /\ driver' = Uninstall(driver, "MIC")
              /\ Goto(t, "idle") /\ init_result' = "mic_pin"
    /\ UNCHANGED <<i2s_hardware_initialized, audio_streams_running, started,
                   redundant>>
    /\ UNCHANGED start_result
    /\ hFrame

\* configure_dac: i2s_driver_install(I2S_PORT_DAC, ...)
DacInstall(t) ==
    /\ task[t] = "dac_install"
    /\ \E err \in Errors :
         IF err = ESP_OK /\ driver["DAC"] = "none"
         THEN /\ driver' = [driver EXCEPT !["DAC"] = "installed"]
              /\ Goto(t, "dac_pin") /\ UNCHANGED init_result
         ELSE /\ Goto(t, "dac_failed") /\ init_result' = "dac_install"
              /\ UNCHANGED driver
    /\ UNCHANGED <<i2s_hardware_initialized, audio_streams_running, started,
                   redundant>>
    /\ UNCHANGED start_result
    /\ hFrame

\* configure_dac: i2s_set_pin(I2S_PORT_DAC, ...)
DacPin(t) ==
    /\ task[t] = "dac_pin"
    /\ \E err \in Errors :
         IF err = ESP_OK
         THEN /\ driver' = [driver EXCEPT !["DAC"] = "configured"]
              /\ Goto(t, "set_initialized") /\ UNCHANGED init_result
         ELSE /\ driver' = Uninstall(driver, "DAC")
              /\ Goto(t, "dac_failed") /\ init_result' = "dac_pin"
    /\ UNCHANGED <<i2s_hardware_initialized, audio_streams_running, started,
                   redundant>>
    /\ UNCHANGED start_result
    /\ hFrame

\* if (dac_result != ESP_OK) { i2s_driver_uninstall(I2S_PORT_MIC); return; }
DacFailedReturn(t) ==
    /\ task[t] = "dac_failed"
    /\ driver' = DacFailed(driver)
    /\ Goto(t, "idle")
    /\ UNCHANGED <<i2s_hardware_initialized, audio_streams_running, started,
                   redundant, init_result, start_result>>
    /\ hFrame

\* i2s_hardware_initialized = true;
SetInitialized(t) ==
    /\ task[t] = "set_initialized"
    /\ i2s_hardware_initialized' = TRUE
    /\ init_result' = "ok"
    /\ Goto(t, "idle")
    /\ UNCHANGED <<audio_streams_running, driver, started, redundant>>
    /\ UNCHANGED start_result
    /\ hFrame

\* start_audio_streams: if (!i2s_hardware_initialized) return;
StartCheckReady(t) ==
    /\ task[t] = "start"
    /\ Goto(t, IF i2s_hardware_initialized THEN "start_check" ELSE "idle")
    /\ UNCHANGED <<i2s_hardware_initialized, audio_streams_running, driver,
                   started, redundant, init_result>>
    /\ start_result' = IF i2s_hardware_initialized THEN start_result ELSE "not_ready"
    /\ hFrame

\* variant: the ports are started whether or not the streams are running
StartCheckRunning_always(t) ==
    /\ task[t] = "start_check"
    /\ Goto(t, "start_mic")
    /\ UNCHANGED <<i2s_hardware_initialized, audio_streams_running, driver,
                   started, redundant, init_result>>
    /\ start_result' = start_result
    /\ hFrame

\* start_audio_streams: if (audio_streams_running) return;
StartCheckRunning(t) ==
    /\ task[t] = "start_check"
    /\ Goto(t, IF audio_streams_running THEN "idle" ELSE "start_mic")
    /\ UNCHANGED <<i2s_hardware_initialized, audio_streams_running, driver,
                   started, redundant, init_result>>
    /\ start_result' = IF audio_streams_running THEN "already" ELSE start_result
    /\ hFrame

\* i2s_start(port) with result err, followed by the statement `ok` or `fail`
I2sStart(t, port, ok, fail) ==
    \E err \in Errors :
      IF err = ESP_OK
      THEN /\ started' = [started EXCEPT ![port] = TRUE]
           /\ redundant' = IF started[port]
                           THEN redundant \cup {<<port, "started twice">>}
                           ELSE redundant
           /\ Goto(t, ok)
      ELSE /\ UNCHANGED <<started, redundant>>
           /\ Goto(t, fail)

\* i2s_stop(port), followed by the statement `to`
I2sStop(t, port, to) ==
    /\ started' = [started EXCEPT ![port] = FALSE]
    /\ redundant' = IF started[port]
                    THEN redundant
                    ELSE redundant \cup {<<port, "stopped twice">>}
    /\ Goto(t, to)

\* esp_err_t mic_start = i2s_start(I2S_PORT_MIC); on failure return
StartMic(t) ==
    /\ task[t] = "start_mic"
    /\ I2sStart(t, "MIC", "start_dac", "idle")
    /\ UNCHANGED <<i2s_hardware_initialized, audio_streams_running, driver,
                   init_result>>
    /\ start_result' = IF task'[t] = "idle" THEN "mic_failed" ELSE start_result
    /\ hFrame

\* esp_err_t dac_start = i2s_start(I2S_PORT_DAC);
StartDac(t) ==
    /\ task[t] = "start_dac"
    /\ I2sStart(t, "DAC", "set_running", "start_undo")
    /\ UNCHANGED <<i2s_hardware_initialized, audio_streams_running, driver,
                   init_result>>
    /\ start_result' = IF task'[t] = "start_undo" THEN "dac_failed" ELSE start_result
    /\ hFrame

\* if (dac_start != ESP_OK) { i2s_stop(I2S_PORT_MIC); return; }
StartUndo(t) ==
    /\ task[t] = "start_undo"
    /\ I2sStop(t, "MIC", "idle")
    /\ UNCHANGED <<i2s_hardware_initialized, audio_streams_running, driver,
                   init_result, start_result>>
    /\ hFrame

\* audio_streams_running = true;
SetRunning(t) ==
    /\ task[t] = "set_running"
    /\ audio_streams_running' = TRUE
    /\ Goto(t, "idle")
    /\ UNCHANGED <<i2s_hardware_initialized, driver, started, redundant,
                   init_result>>
    /\ start_result' = "ok"
    /\ hFrame

\* stop_audio_streams: if (!audio_streams_running) return;
StopCheck(t) ==
    /\ task[t] = "stop"
    /\ Goto(t, IF audio_streams_running THEN "stop_mic" ELSE "idle")
    /\ UNCHANGED <<i2s_hardware_initialized, audio_streams_running, driver,
                   started, redundant, init_result, start_result>>
    /\ hFrame

\* i2s_stop(I2S_PORT_MIC);
StopMic(t) ==
    /\ task[t] = "stop_mic"
    /\ I2sStop(t, "MIC", "stop_dac")
    /\ UNCHANGED <<i2s_hardware_initialized, audio_streams_running, driver,
                   init_result, start_result>>
    /\ hFrame

\* i2s_stop(I2S_PORT_DAC);
StopDac(t) ==
    /\ task[t] = "stop_dac"
    /\ I2sStop(t, "DAC", "clear_running")
    /\ UNCHANGED <<i2s_hardware_initialized, audio_streams_running, driver,
                   init_result, start_result>>
    /\ hFrame

\* audio_streams_running = false;
ClearRunning(t) ==
    /\ task[t] = "clear_running"
    /\ audio_streams_running' = FALSE
    /\ Goto(t, "idle")
    /\ UNCHANGED <<i2s_hardware_initialized, driver, started, redundant,
                   init_result, start_result>>
    /\ hFrame

InitHardware ==
    /\ mbIdle /\ limits = BAND_LIMITS /\ wIdle /\ gIdle /\ oIdle /\ hIdle /\ xIdle

NextHardware ==
    \E t \in Tasks :
      \/ CallHardware(t)
      \/ InitCheck(t)
      \/ MicInstall(t)
      \/ MicPin(t)
      \/ DacInstall(t)
      \/ DacPin(t)
      \/ DacFailedReturn(t)
      \/ SetInitialized(t)
      \/ StartCheckReady(t)
      \/ StartCheckRunning(t)
      \/ StartMic(t)
      \/ StartDac(t)
      \/ StartUndo(t)
      \/ SetRunning(t)
      \/ StopCheck(t)
      \/ StopMic(t)
      \/ StopDac(t)
      \/ ClearRunning(t)

SpecHardware == InitHardware /\ [][NextHardware]_vars

\* the functions of audio_hardware.cpp called from the Arduino task alone
NextStreams ==
    \/ CallHardware("loop")
    \/ InitCheck("loop")
    \/ MicInstall("loop")
    \/ MicPin("loop")
    \/ DacInstall("loop")
    \/ DacPin("loop")
    \/ DacFailedReturn("loop")
    \/ SetInitialized("loop")
    \/ StartCheckReady("loop")
    \/ StartCheckRunning("loop")
    \/ StartMic("loop")
    \/ StartDac("loop")
    \/ StartUndo("loop")
    \/ SetRunning("loop")
    \/ StopCheck("loop")
    \/ StopMic("loop")
    \/ StopDac("loop")
    \/ ClearRunning("loop")

SpecStreams == InitHardware /\ [][NextStreams]_vars

-----------------------------------------------------------------------------
(* button_control.cpp: the pip system                                       *)

\* the statements of start_pip_sequence(num_pips), in order; `now` is millis()
StartStatements ==
    <<"start_active", "start_total", "start_remaining", "start_samples",
      "start_time", "start_gap", "start_phase">>

StartStatement(ps, stmt, num_pips, now) ==
    CASE stmt = "start_active" -> [ps EXCEPT !.active = TRUE]
      [] stmt = "start_total" -> [ps EXCEPT !.total_pips = num_pips]
      [] stmt = "start_remaining" -> [ps EXCEPT !.remaining_pips = num_pips]
      [] stmt = "start_samples" -> [ps EXCEPT !.samples_in_current_pip = PIP_SAMPLES]
      [] stmt = "start_time" -> [ps EXCEPT !.pip_start_time = now]
      [] stmt = "start_gap" -> [ps EXCEPT !.in_gap = FALSE]
      [] stmt = "start_phase" -> [ps EXCEPT !.phase = 0]

\* the statements of stop_pip_sequence(), in order
StopStatements == <<"stop_active", "stop_remaining", "stop_gap", "stop_phase">>

StopStatement(ps, stmt) ==
    CASE stmt = "stop_active" -> [ps EXCEPT !.active = FALSE]
      [] stmt = "stop_remaining" -> [ps EXCEPT !.remaining_pips = 0]
      [] stmt = "stop_gap" -> [ps EXCEPT !.in_gap = FALSE]
      [] stmt = "stop_phase" -> [ps EXCEPT !.phase = 0]

\* the statement after stmt in the list, "idle" after the last
Following(list, stmt) ==
    LET k == CHOOSE j \in 1 .. Len(list) : list[j] = stmt
    IN IF k < Len(list) THEN list[k + 1] ELSE "idle"

RECURSIVE RunStart(_, _, _, _)
RunStart(ps, stmt, num_pips, now) ==
    IF stmt = "idle" THEN ps
    ELSE RunStart(StartStatement(ps, stmt, num_pips, now),
                  Following(StartStatements, stmt), num_pips, now)

\* start_pip_sequence(num_pips) run from its first to its last statement
start_pip_sequence(ps, num_pips, now) ==
    RunStart(ps, StartStatements[1], num_pips, now)

\* stop_pip_sequence() run from its first to its last statement
stop_pip_sequence(ps) ==
    [ps EXCEPT !.active = FALSE, !.remaining_pips = 0, !.in_gap = FALSE,
               !.phase = 0]

\* force_stop_pips()
force_stop_pips(ps) == IF ps.active THEN stop_pip_sequence(ps) ELSE ps

\* (int16_t)(sin(phase) * PIP_AMPLITUDE * 32767) with four samples per period
Tone(phase) == <<0, 16383, 0, -16383>>[phase + 1]

\* one iteration of the loop of process_pip_audio: the pip system after it,
\* the sample written to buffer[i], and whether the sample is a tone sample
PipSample(ps, now) ==
    IF ps.in_gap
    THEN [ps |-> IF now - ps.pip_gap_start >= PIP_GAP_MS
                 THEN [ps EXCEPT !.in_gap = FALSE,
                                 !.samples_in_current_pip = PIP_SAMPLES,
                                 !.pip_start_time = now]
                 ELSE ps,
          sample |-> 0, tone |-> FALSE]
    ELSE IF ps.samples_in_current_pip > 0
    THEN [ps |-> [ps EXCEPT !.phase = (ps.phase + 1) % 4,
                            !.samples_in_current_pip = ps.samples_in_current_pip - 1],
          sample |-> Tone(ps.phase), tone |-> TRUE]
    ELSE IF ps.remaining_pips - 1 > 0
    THEN [ps |-> [ps EXCEPT !.remaining_pips = ps.remaining_pips - 1,
                            !.in_gap = TRUE, !.pip_gap_start = now],
          sample |-> 0, tone |-> FALSE]
    ELSE [ps |-> [ps EXCEPT !.remaining_pips = ps.remaining_pips - 1,
                            !.active = FALSE],
          sample |-> 0, tone |-> FALSE]

\* variant: the loop is left when the sequence is over
KeepsLooping_whileActive(ps, j, num_samples) == j < num_samples /\ ps.active

\* for (int i = 0; i < num_samples; i++)
KeepsLooping(ps, j, num_samples) == j < num_samples

pFrame == UNCHANGED <<mbVars, wVars, gVars, oVars, hVars, bVars, sVars>>

\* the audio task calls process_pip_audio(buffer, NumSamples) on a fresh buffer
CallPipAudio ==
    /\ audio.pc = "idle"
    /\ audio' = [pc |-> "check", i |-> 0, was_active |-> FALSE, ret |-> "none"]
    /\ buffer' = [k \in 0 .. (NumSamples - 1) |-> Untouched]
    /\ UNCHANGED <<pVars, ctrl>>
    /\ pFrame

\* if (!pip_system.active) return false;
PipCheck ==
    /\ audio.pc = "check"
    /\ audio' = IF pip_system.active
                THEN [audio EXCEPT !.pc = "loop", !.was_active = TRUE]
                ELSE [audio EXCEPT !.pc = "idle", !.ret = "false"]
    /\ UNCHANGED <<pVars, buffer, ctrl>>
    /\ pFrame

\* one iteration of the loop, or return true after the last
PipLoop ==
    /\ audio.pc = "loop"
    /\ IF KeepsLooping(pip_system, audio.i, NumSamples)
       THEN /\ pip_system' = PipSample(pip_system, millis).ps
            /\ buffer' = [buffer EXCEPT ![audio.i] = PipSample(pip_system, millis).sample]
            /\ sequence' = IF PipSample(pip_system, millis).tone
                      THEN [sequence EXCEPT !.tone = sequence.tone + 1] ELSE sequence
            /\ audio' = [audio EXCEPT !.i = audio.i + 1]
       ELSE /\ audio' = [audio EXCEPT !.pc = "idle", !.ret = "true"]
            /\ UNCHANGED <<pip_system, buffer, sequence>>
    /\ UNCHANGED <<millis, ctrl>>
    /\ pFrame

\* the control task enters start_pip_sequence(n)
CallStartPips ==
    /\ ctrl.pc = "idle"
    /\ \E n \in 1 .. MaxPips : ctrl' = [pc |-> StartStatements[1], n |-> n]
    /\ sequence' = [n |-> ctrl'.n, tone |-> 0, stopped |-> FALSE]
    /\ UNCHANGED <<millis, pip_system, buffer, audio>>
    /\ pFrame

\* the next statement of start_pip_sequence
StartPipsStep ==
    /\ ctrl.pc \in {StartStatements[k] : k \in 1 .. Len(StartStatements)}
    /\ pip_system' = StartStatement(pip_system, ctrl.pc, ctrl.n, millis)
    /\ ctrl' = [ctrl EXCEPT !.pc = Following(StartStatements, ctrl.pc)]
    /\ UNCHANGED <<millis, sequence, buffer, audio>>
    /\ pFrame

\* the control task enters stop_pip_sequence()
CallStopPips ==
    /\ ctrl.pc = "idle"
    /\ ctrl' = [pc |-> StopStatements[1], n |-> 0]
    /\ sequence' = [sequence EXCEPT !.stopped = TRUE]
    /\ UNCHANGED <<millis, pip_system, buffer, audio>>
    /\ pFrame

\* the next statement of stop_pip_sequence
StopPipsStep ==
    /\ ctrl.pc \in {StopStatements[k] : k \in 1 .. Len(StopStatements)}
    /\ pip_system' = StopStatement(pip_system, ctrl.pc)
    /\ ctrl' = [ctrl EXCEPT !.pc = Following(StopStatements, ctrl.pc)]
    /\ UNCHANGED <<millis, sequence, buffer, audio>>
    /\ pFrame

\* time passes
PipTick ==
    /\ millis < MaxTicks * (PIP_GAP_MS \div 2)
    /\ millis' = millis + PIP_GAP_MS \div 2
    /\ UNCHANGED <<pip_system, sequence, aVars>>
    /\ pFrame

InitPips ==
    /\ mbIdle /\ limits = BAND_LIMITS /\ wIdle /\ gIdle /\ oIdle /\ hIdle /\ xIdle

NextPips ==
    \/ CallPipAudio
    \/ PipCheck
    \/ PipLoop
    \/ CallStartPips
    \/ StartPipsStep
    \/ CallStopPips
    \/ StopPipsStep
    \/ PipTick

SpecPips == InitPips /\ [][NextPips]_vars

-----------------------------------------------------------------------------
(* button_control.cpp: buttons and sleep mode                               *)

\* the state handle_button_events works on, as one record; log, warning,
\* warnings and released are history
Buttons ==
    [up |-> btn_gain_up_flag, down |-> btn_gain_down_flag, slp |-> btn_sleep_flag,
     level |-> current_gain_level, factor |-> gain_factor,
     press_start |-> btn_sleep_press_start, held |-> btn_sleep_held,
     started |-> sleep_sequence_started, ps |-> pip_system,
     log |-> <<>>, warning |-> hold.warning, warnings |-> hold.warnings,
     released |-> hold.released, enter |-> FALSE]

\* the history entry of one handled press of a gain button
Press(button, before, after) ==
    [button |-> button, level_before |-> before.level,
     factor_before |-> before.factor, level_after |-> after.level,
     factor_after |-> after.factor, ps |-> after.ps]

Logged(button, before, after) ==
    [after EXCEPT !.log = Append(before.log, Press(button, before, after)),
                  !.warning = FALSE]

\* variant: the level is raised and gain_factor keeps its value
GainUp_staleFactor(b, now) ==
    IF b.level < Len(gain_levels) - 1
    THEN [b EXCEPT !.level = b.level + 1,
                   !.ps = start_pip_sequence(b.ps, b.level + 2, now)]
    ELSE [b EXCEPT !.ps = start_pip_sequence(b.ps, 3, now)]

\* handle_gain_buttons, body of if (btn_gain_up_flag) after the flag is cleared
GainUp(b, now) ==
    IF b.level < Len(gain_levels) - 1
    THEN [b EXCEPT !.level = b.level + 1,
                   !.factor = gain_levels[b.level + 2],
                   !.ps = start_pip_sequence(b.ps, b.level + 2, now)]
    ELSE [b EXCEPT !.ps = start_pip_sequence(b.ps, 3, now)]

\* handle_gain_buttons, body of if (btn_gain_down_flag) after the flag is cleared
GainDown(b, now) ==
    IF b.level > 0
    THEN [b EXCEPT !.level = b.level - 1,
                   !.factor = gain_levels[b.level],
                   !.ps = start_pip_sequence(b.ps, b.level, now)]
    ELSE [b EXCEPT !.ps = start_pip_sequence(b.ps, 1, now)]

\* handle_gain_buttons()
handle_gain_buttons(b, now) ==
    LET up == IF b.up
              THEN Logged("up", b, GainUp([b EXCEPT !.up = FALSE], now))
              ELSE b
    IN IF up.down
       THEN Logged("down", up, GainDown([up EXCEPT !.down = FALSE], now))
       ELSE up

\* handle_sleep_button, if (btn_sleep_flag) { ... }
SleepFlag(b, pressed, now) ==
    IF ~b.slp THEN b
    ELSE IF pressed /\ ~b.held
    THEN [b EXCEPT !.slp = FALSE, !.press_start = now, !.held = TRUE,
                   !.started = FALSE, !.released = FALSE, !.warnings = 0]
    ELSE IF ~pressed /\ b.held
    THEN [b EXCEPT !.slp = FALSE, !.held = FALSE, !.started = FALSE,
                   !.ps = IF now - b.press_start >= WarningHold
                             /\ now - b.press_start < SLEEP_HOLD_TIME
                          THEN stop_pip_sequence(b.ps) ELSE b.ps]
    ELSE [b EXCEPT !.slp = FALSE]

\* handle_sleep_button, if (btn_sleep_held && btn_currently_pressed) { ... }
SleepHold(b, pressed, now) ==
    IF ~(b.held /\ pressed) THEN b
    ELSE IF now - b.press_start >= WarningHold /\ ~b.started
    THEN [b EXCEPT !.ps = start_pip_sequence(b.ps, 3, now), !.started = TRUE,
                   !.warning = TRUE, !.warnings = b.warnings + 1]
    ELSE IF now - b.press_start >= SLEEP_HOLD_TIME
    THEN [b EXCEPT !.enter = TRUE]
    ELSE b

\* handle_sleep_button, if (!btn_currently_pressed) { ... }
SleepReset(b, pressed) ==
    IF pressed THEN b ELSE [b EXCEPT !.held = FALSE, !.started = FALSE]

\* handle_sleep_button() up to a call of enter_sleep_mode
handle_sleep_button(b, pressed, now) ==
    SleepReset(SleepHold(SleepFlag(b, pressed, now), pressed, now), pressed)

\* handle_button_events() up to a call of enter_sleep_mode
handle_button_events(b, sleeping, pressed, now) ==
    IF sleeping THEN b
    ELSE handle_sleep_button(handle_gain_buttons(b, now), pressed, now)

\* an interrupt service routine of a button at time `now`:
\* the flag and last_interrupt_time after it
Isr(flag, last_time, now) ==
    IF now - last_time > DEBOUNCE_DELAY
    THEN [flag |-> TRUE, last |-> now]
    ELSE [flag |-> flag, last |-> last_time]

bFrame == UNCHANGED <<mbVars, wVars, gVars, oVars, sequence, aVars, sVars>>

\* the interrupts are served while the control task is not in light sleep; the
\* control task calls handle_button_events after every button edge and between
\* any two clock ticks
Served == control = "running" /\ since_poll # "edge"

\* the gain-up button goes down: btn_gain_up_isr
GainUpEdge ==
    /\ Served
    /\ btn_gain_up_flag' = Isr(btn_gain_up_flag, last_interrupt_time, millis).flag
    /\ last_interrupt_time' = Isr(btn_gain_up_flag, last_interrupt_time, millis).last
    /\ since_poll' = "edge"
    /\ UNCHANGED <<btn_gain_down_flag, btn_sleep_flag, btn_sleep_press_start,
                   btn_sleep_held, sleep_sequence_started, current_gain_level,
                   gain_factor, audio_processing_active, system_sleeping,
                   sleep_pin, control, handled, hold, at_sleep>>
    /\ UNCHANGED <<hVars, millis, pip_system>>
    /\ bFrame

\* the gain-down button goes down: btn_gain_down_isr
GainDownEdge ==
    /\ Served
    /\ btn_gain_down_flag' = Isr(btn_gain_down_flag, last_interrupt_time, millis).flag
    /\ last_interrupt_time' = Isr(btn_gain_down_flag, last_interrupt_time, millis).last
    /\ since_poll' = "edge"
    /\ UNCHANGED <<btn_gain_up_flag, btn_sleep_flag, btn_sleep_press_start,
                   btn_sleep_held, sleep_sequence_started, current_gain_level,
                   gain_factor, audio_processing_active, system_sleeping,
                   sleep_pin, control, handled, hold, at_sleep>>
    /\ UNCHANGED <<hVars, millis, pip_system>>
    /\ bFrame

\* the sleep button goes down or up: btn_sleep_isr (attached on CHANGE); in
\* light sleep no interrupt routine runs
SleepEdge ==
    /\ since_poll # "edge" \/ control = "asleep"
    /\ sleep_pin' = IF sleep_pin = "HIGH" THEN "LOW" ELSE "HIGH"
    /\ IF control = "running"
       THEN /\ btn_sleep_flag' = Isr(btn_sleep_flag, last_interrupt_time, millis).flag
            /\ last_interrupt_time' = Isr(btn_sleep_flag, last_interrupt_time, millis).last
            /\ since_poll' = "edge"
       ELSE UNCHANGED <<btn_sleep_flag, last_interrupt_time, since_poll>>
    /\ hold' = IF sleep_pin' = "HIGH" THEN [hold EXCEPT !.released = TRUE] ELSE hold
    /\ UNCHANGED <<btn_gain_up_flag, btn_gain_down_flag, btn_sleep_press_start,
                   btn_sleep_held, sleep_sequence_started, current_gain_level,
                   gain_factor, audio_processing_active, system_sleeping,
                   control, handled, at_sleep>>
    /\ UNCHANGED <<hVars, millis, pip_system>>
    /\ bFrame

\* time passes
ButtonTick ==
    /\ since_poll = "nothing" \/ control = "asleep"
    /\ \E dt \in {ShortStep, LongStep} :
         /\ millis + dt <= MaxMillis
         /\ dt = ShortStep => (millis % LongStep) \div ShortStep < MaxShortSteps
         /\ millis' = millis + dt
    /\ since_poll' = IF control = "asleep" THEN since_poll ELSE "tick"
    /\ UNCHANGED <<btn_gain_up_flag, btn_gain_down_flag, btn_sleep_flag,
                   last_interrupt_time, btn_sleep_press_start,
                   btn_sleep_held, sleep_sequence_started, current_gain_level,
                   gain_factor, audio_processing_active, system_sleeping,
                   sleep_pin, control, handled, hold, at_sleep>>
    /\ UNCHANGED <<hVars, pip_system>>
    /\ bFrame

\* stop_audio_streams() of audio_hardware.cpp, run from entry to return
StopStreams ==
    IF audio_streams_running
    THEN /\ started' = [p \in Ports |-> FALSE]
         /\ audio_streams_running' = FALSE
    ELSE UNCHANGED <<started, audio_streams_running>>

\* start_audio_streams() of audio_hardware.cpp, run from entry to return, the
\* two i2s_start calls returning mic and dac
StartStreams(mic, dac) ==
    IF ~i2s_hardware_initialized
    THEN start_result' = "not_ready" /\ UNCHANGED <<started, audio_streams_running>>
    ELSE IF audio_streams_running
    THEN start_result' = "already" /\ UNCHANGED <<started, audio_streams_running>>
    ELSE IF mic # ESP_OK
    THEN start_result' = "mic_failed" /\ UNCHANGED <<started, audio_streams_running>>
    ELSE IF dac # ESP_OK
    THEN /\ start_result' = "dac_failed"
         /\ started' = [started EXCEPT !["MIC"] = FALSE]
         /\ UNCHANGED audio_streams_running
    ELSE /\ start_result' = "ok"
         /\ started' = [p \in Ports |-> TRUE]
         /\ audio_streams_running' = TRUE

\* the control task calls handle_button_events(); when the call reaches
\* enter_sleep_mode, the action runs it up to esp_light_sleep_start()
HandleButtons ==
    /\ control = "running"
    /\ LET b == handle_button_events(Buttons, system_sleeping,
                                     sleep_pin = "LOW", millis)
       IN /\ btn_gain_up_flag' = b.up
          /\ btn_gain_down_flag' = b.down
          /\ btn_sleep_flag' = b.slp
          /\ current_gain_level' = b.level
          /\ gain_factor' = b.factor
          /\ btn_sleep_press_start' = b.press_start
          /\ btn_sleep_held' = b.held
          /\ sleep_sequence_started' = b.started
          /\ handled' = b.log
          /\ hold' = [released |-> b.released,
                      warning |-> b.warning /\ ~b.enter,
                      warnings |-> b.warnings]
          /\ IF b.enter
             THEN /\ pip_system' = stop_pip_sequence(b.ps)
                  /\ audio_processing_active' = FALSE
                  /\ system_sleeping' = TRUE
                  /\ StopStreams
                  /\ control' = "asleep"
                  /\ at_sleep' = <<b.level, b.factor>>
             ELSE /\ pip_system' = b.ps
                  /\ UNCHANGED <<audio_processing_active, system_sleeping,
                                 started, audio_streams_running, control, at_sleep>>
    /\ since_poll' = "nothing"
    /\ UNCHANGED <<last_interrupt_time, sleep_pin, millis>>
    /\ UNCHANGED <<i2s_hardware_initialized, driver, task, redundant,
                   init_result, start_result>>
    /\ bFrame

\* esp_light_sleep_start() returns when the sleep pin is LOW; enter_sleep_mode
\* runs to its end, and handle_button_events returns
Wake ==
    /\ control = "asleep"
    /\ sleep_pin = "LOW"
    /\ system_sleeping' = FALSE
    /\ audio_processing_active' = TRUE
    /\ btn_sleep_held' = FALSE
    /\ sleep_sequence_started' = FALSE
    /\ \E mic \in Errors, dac \in Errors : StartStreams(mic, dac)
    /\ pip_system' = start_pip_sequence(pip_system, 2, millis)
    /\ control' = "running"
    /\ since_poll' = "nothing"
    /\ UNCHANGED <<btn_gain_up_flag, btn_gain_down_flag, btn_sleep_flag,
                   last_interrupt_time, btn_sleep_press_start,
                   current_gain_level, gain_factor, sleep_pin, handled, hold,
                   at_sleep>>
    /\ UNCHANGED <<i2s_hardware_initialized, driver, task, redundant,
                   init_result, millis>>
    /\ bFrame

\* after setup(): hardware initialized, streams running, any gain level
InitButtons ==
    /\ mbIdle /\ limits = BAND_LIMITS /\ wIdle /\ gIdle /\ oIdle
    /\ i2s_hardware_initialized = TRUE
    /\ audio_streams_running = TRUE
    /\ driver = [p \in Ports |-> "configured"]
    /\ started = [p \in Ports |-> TRUE]
    /\ task = [t \in Tasks |-> "idle"]
    /\ redundant = {}
    /\ init_result = "ok"
    /\ start_result = "ok"
    /\ pIdle /\ aIdle
    /\ btn_gain_up_flag = FALSE /\ btn_gain_down_flag = FALSE
    /\ btn_sleep_flag = FALSE
    /\ last_interrupt_time = 0
    /\ btn_sleep_press_start = 0
    /\ btn_sleep_held = FALSE
    /\ sleep_sequence_started = FALSE
    /\ \E level \in 0 .. (Len(gain_levels) - 1) :
         current_gain_level = level /\ gain_factor = gain_levels[level + 1]
    /\ audio_processing_active = TRUE
    /\ system_sleeping = FALSE
    /\ sleep_pin = "HIGH"
    /\ control = "running"
    /\ since_poll = "nothing"
    /\ handled = <<>>
    /\ hold = NoHold
    /\ at_sleep = <<>>
    /\ sIdle

NextButtons ==
    \/ GainUpEdge
    \/ GainDownEdge
    \/ SleepEdge
    \/ ButtonTick
    \/ HandleButtons
    \/ Wake

SpecButtons == InitButtons /\ [][NextButtons]_vars

-----------------------------------------------------------------------------
(* serial_commands.cpp: presets in NVS and the serial commands              *)

UpperCase == <<"A", "B", "C", "D", "E", "F", "G", "H", "I", "J", "K", "L", "M", "N", "O", "P", "Q", "R", "S", "T", "U", "V", "W", "X", "Y", "Z">>
LowerCase == <<"a", "b", "c", "d", "e", "f", "g", "h", "i", "j", "k", "l", "m", "n", "o", "p", "q", "r", "s", "t", "u", "v", "w", "x", "y", "z">>
Digits == <<"0", "1", "2", "3", "4", "5", "6", "7", "8", "9">>
Whitespace == {" ", "\t", "\r"}

PositionIn(list, c) == CHOOSE k \in 1 .. Len(list) : list[k] = c

\* tolower
ToLowerChar(c) ==
    IF \E k \in 1 .. Len(UpperCase) : UpperCase[k] = c
    THEN LowerCase[PositionIn(UpperCase, c)]
    ELSE c

\* String::toLowerCase
toLowerCase(s) == [k \in 1 .. Len(s) |-> ToLowerChar(s[k])]

\* String::trim: whitespace removed at both ends
RECURSIVE trim(_)
trim(s) ==
    IF s = <<>> THEN s
    ELSE IF s[1] \in Whitespace THEN trim(Tail(s))
    ELSE IF s[Len(s)] \in Whitespace THEN trim(SubSeq(s, 1, Len(s) - 1))
    ELSE s

\* String::indexOf: position of the first c, counted from 0, or -1
indexOf(s, c) ==
    IF \E k \in 1 .. Len(s) : s[k] = c
    THEN (CHOOSE k \in 1 .. Len(s) :
              s[k] = c /\ \A j \in 1 .. (k - 1) : s[j] # c) - 1
    ELSE -1

\* String::substring(from) and String::substring(from, to)
substring(s, from) == SubSeq(s, from + 1, Len(s))
substring2(s, from, to) == SubSeq(s, from + 1, to)

\* the digits at the start of s, as a number; 0 when there is none
RECURSIVE LeadingDigits(_, _)
LeadingDigits(s, acc) ==
    IF s = <<>> \/ ~(\E k \in 1 .. Len(Digits) : Digits[k] = s[1]) THEN acc
    ELSE LeadingDigits(Tail(s), 10 * acc + PositionIn(Digits, s[1]) - 1)

\* String::toInt (atol): leading whitespace skipped, an optional sign, then
\* the digits up to the first other character
RECURSIVE toInt(_)
toInt(s) ==
    IF s = <<>> THEN 0
    ELSE IF s[1] \in Whitespace THEN toInt(Tail(s))
    ELSE IF s[1] = "-" THEN 0 - LeadingDigits(Tail(s), 0)
    ELSE IF s[1] = "+" THEN LeadingDigits(Tail(s), 0)
    ELSE LeadingDigits(s, 0)

\* handle_serial_commands: the line read is trimmed, lowercased and split
\* into command, param and param2
Parse(line) ==
    Bind(toLowerCase(trim(line)), LAMBDA text :
    Bind(indexOf(text, " "), LAMBDA space_index :
       IF space_index > 0
       THEN Bind(substring(text, space_index + 1), LAMBDA remaining :
            Bind(indexOf(remaining, " "), LAMBDA space_index2 :
            IF space_index2 > 0
            THEN [command |-> substring2(text, 0, space_index),
                  param |-> substring2(remaining, 0, space_index2),
                  param2 |-> substring(remaining, space_index2 + 1)]
            ELSE [command |-> substring2(text, 0, space_index),
                  param |-> remaining, param2 |-> <<>>]))
       ELSE [command |-> text, param |-> <<>>, param2 |-> <<>>]))

\* the lines received here
Separators == {<<" ">>, <<" ", " ">>}
LevelParams ==
    {<<"3">>, <<"5">>, <<"0">>, <<"6">>, <<"-", "2">>,
     <<"3", "a", "b", "c">>, <<"a", "b", "c">>}
Lines ==
    {W_delete_preset \o sep \o p :
        sep \in Separators, p \in {W_default, <<"D", "E", "F", "A", "U", "L", "T">>, W_other}}
    \cup {<<"D", "e", "l", "e", "t", "e", "_", "P", "r", "e", "s", "e", "t">> \o <<" ">> \o <<"D", "e", "f", "a", "u", "l", "t">> \o <<" ">>, W_delete_preset}
    \cup {c \o <<" ">> \o p :
             c \in {W_save_preset, W_load_preset}, p \in {W_default, W_other}}
    \cup {W_set_gain_level \o <<" ">> \o p : p \in LevelParams}
    \cup {W_set_gain_level, W_reset}

\* the keys a command can name
Keys == {Parse(l).param : l \in Lines} \ {<<>>}

\* calculate_checksum: the sum of the bytes before the checksum
calculate_checksum(config) ==
    config.version + config.gain_level + config.highpass_enabled

\* the state the commands work on, as one record
System ==
    [config |-> current_config, level |-> current_gain_level,
     factor |-> gain_factor, ps |-> pip_system, nvs |-> nvs, ret |-> "none"]

\* sync_config_to_system
sync_config_to_system(sys) ==
    [sys EXCEPT !.level = sys.config.gain_level,
                !.factor = gain_levels[sys.config.gain_level + 1]]

\* sync_system_to_config
sync_system_to_config(sys) ==
    LET c == [sys.config EXCEPT !.version = 1, !.gain_level = sys.level]
    IN [sys EXCEPT !.config = [c EXCEPT !.checksum = calculate_checksum(c)]]

\* nvs_get_blob: ESP_OK with the blob, ESP_ERR_NVS_NOT_FOUND, or the error err
nvs_get_blob(store, key, err) ==
    IF store[key] = NoBlob THEN "ESP_ERR_NVS_NOT_FOUND" ELSE err

\* variant: the version of the blob is not looked at
load_config_from_nvs_anyVersion(sys, initialized, preset_name, err) ==
    IF ~initialized THEN [sys EXCEPT !.ret = "false"]
    ELSE IF nvs_get_blob(sys.nvs, preset_name, err) = ESP_OK
            /\ calculate_checksum(sys.nvs[preset_name]) = sys.nvs[preset_name].checksum
    THEN [sync_config_to_system([sys EXCEPT !.config = sys.nvs[preset_name]])
             EXCEPT !.ret = "true"]
    ELSE [sys EXCEPT !.ret = "false"]

\* load_config_from_nvs(preset_name)
load_config_from_nvs(sys, initialized, preset_name, err) ==
    IF ~initialized THEN [sys EXCEPT !.ret = "false"]
    ELSE IF nvs_get_blob(sys.nvs, preset_name, err) = ESP_OK
            /\ calculate_checksum(sys.nvs[preset_name]) = sys.nvs[preset_name].checksum
            /\ sys.nvs[preset_name].version = 1
    THEN [sync_config_to_system([sys EXCEPT !.config = sys.nvs[preset_name]])
             EXCEPT !.ret = "true"]
    ELSE [sys EXCEPT !.ret = "false"]

\* save_config_to_nvs(preset_name), nvs_set_blob and nvs_commit returning err
save_config_to_nvs(sys, initialized, preset_name, err) ==
    IF ~initialized THEN [sys EXCEPT !.ret = "false"]
    ELSE IF err = ESP_OK
    THEN [sync_system_to_config(sys) EXCEPT
             !.nvs[preset_name] = sync_system_to_config(sys).config,
             !.ret = "true"]
    ELSE [sync_system_to_config(sys) EXCEPT !.ret = "false"]

\* reset_to_default
reset_to_default(sys) == sync_config_to_system([sys EXCEPT !.config = default_config])

\* variant: no preset name is refused
DeleteRefused_never(param) == FALSE

\* delete_preset: else if (param == "default")
DeleteRefused(param) == param = W_default

\* the command delete_preset, nvs_erase_key returning err when the key exists
delete_preset(sys, initialized, param, err) ==
    IF param = <<>> THEN [sys EXCEPT !.ret = "no_name"]
    ELSE IF DeleteRefused(param) THEN [sys EXCEPT !.ret = "refused"]
    ELSE IF initialized /\ sys.nvs[param] # NoBlob /\ err = ESP_OK
    THEN [sys EXCEPT !.nvs[param] = NoBlob, !.ret = "erased"]
    ELSE [sys EXCEPT !.ret = "not_erased"]

\* the command set_gain_level
set_gain_level(sys, param) ==
    IF param = <<>> THEN [sys EXCEPT !.ret = "no_level"]
    ELSE Bind(toInt(param), LAMBDA level :
           IF level >= 1 /\ level <= 5
           THEN [sys EXCEPT !.level = level - 1,
                            !.factor = gain_levels[level],
                            !.ps = force_stop_pips(sys.ps),
                            !.ret = "set"]
           ELSE [sys EXCEPT !.ret = "bad_level"])

\* handle_serial_commands for one line, the NVS call it makes returning err
handle_serial_commands(sys, initialized, line, err) ==
    Bind(Parse(line), LAMBDA c :
       IF c.command = W_set_gain_level THEN set_gain_level(sys, c.param)
       ELSE IF c.command = W_save_preset
       THEN IF c.param = <<>> THEN [sys EXCEPT !.ret = "no_name"]
            ELSE save_config_to_nvs(sys, initialized, c.param, err)
       ELSE IF c.command = W_load_preset
       THEN IF c.param = <<>> THEN [sys EXCEPT !.ret = "no_name"]
            ELSE load_config_from_nvs(sys, initialized, c.param, err)
       ELSE IF c.command = W_delete_preset
       THEN delete_preset(sys, initialized, c.param, err)
       ELSE IF c.command = W_reset THEN [reset_to_default(sys) EXCEPT !.ret = "reset"]
       ELSE [sys EXCEPT !.ret = "unknown"])

bRest == <<btn_gain_up_flag, btn_gain_down_flag, btn_sleep_flag,
           last_interrupt_time, btn_sleep_press_start, btn_sleep_held,
           sleep_sequence_started, audio_processing_active, system_sleeping,
           sleep_pin, control, since_poll, handled, hold, at_sleep>>

sFrame == UNCHANGED <<mbVars, wVars, gVars, oVars, hVars, millis, sequence,
                      aVars, bRest>>

\* a line arrives on the serial port and handle_serial_commands handles it
SerialCommand ==
    /\ \E line \in Lines, err \in Errors :
         \E sys \in {handle_serial_commands(System, nvs_initialized, line, err)} :
            /\ current_config' = sys.config
            /\ current_gain_level' = sys.level
            /\ gain_factor' = sys.factor
            /\ pip_system' = sys.ps
            /\ nvs' = sys.nvs
            /\ serial' = [line |-> line, err |-> err, ret |-> sys.ret]
    /\ UNCHANGED nvs_initialized
    /\ sFrame

\* the button handler starts a pip sequence
SerialPips ==
    /\ ~pip_system.active
    /\ pip_system' = start_pip_sequence(pip_system, 3, millis)
    /\ serial' = NoCommand
    /\ UNCHANGED <<nvs_initialized, nvs, current_config,
                   current_gain_level, gain_factor>>
    /\ sFrame

\* the blobs found in flash under a key other than "default": none, one
\* written by save_config_to_nvs, one with a damaged byte, one of version 2
FoundBlobs ==
    {NoBlob, AudioConfig(1, 4, 0, 5), AudioConfig(1, 3, 0, 5),
     AudioConfig(2, 4, 0, 6)}

\* after initialize_serial_interface: without NVS the default configuration
\* is in RAM; with NVS the preset "default" was loaded or written
InitSerial ==
    /\ mbIdle /\ limits = BAND_LIMITS /\ wIdle /\ gIdle /\ oIdle /\ hIdle
    /\ pIdle /\ aIdle /\ bIdle
    /\ serial = NoCommand
    /\ current_config = [default_config EXCEPT !.checksum = calculate_checksum(default_config)]
    /\ nvs_initialized \in BOOLEAN
    /\ \E found \in FoundBlobs :
         nvs = [k \in Keys |->
                  IF ~nvs_initialized THEN NoBlob
                  ELSE IF k = W_default THEN current_config
                  ELSE IF k = W_other THEN found
                  ELSE NoBlob]

NextSerial ==
    \/ SerialCommand
    \/ SerialPips

SpecSerial == InitSerial /\ [][NextSerial]_vars

-----------------------------------------------------------------------------
(* Properties                                                               *)

\* the bands whose interval [limits[b], limits[b+1]) holds f
BandsHolding(f) == { b \in Bands : limits[b + 1] <= f /\ f < limits[b + 2] }

InNoBand(f) == BandsHolding(f) = {}

HalfSize == FFT_SIZE \div 2

\* C1: getBandIndex(f) is the lowest band i with BAND_LIMITS[i] <= f <
\* BAND_LIMITS[i+1] and -1 when there is none; with the limits of config.h,
\* 1000 Hz is band 1, 249.999 Hz and 8000 Hz are in no band.
C1_Classification ==
    band # -2 =>
      /\ InNoBand(frequency) => band = -1
      /\ ~InNoBand(frequency) =>
           band \in BandsHolding(frequency)
           /\ \A b \in BandsHolding(frequency) : band <= b
      /\ limits = BAND_LIMITS =>
           /\ frequency = 1000000 => band = 1
           /\ frequency = 249999 => band = -1
           /\ frequency = 8000000 => band = -1

\* C1 case: the shared edge 1000 Hz of the table of config.h has been classified
C1_Witness ==
    limits = BAND_LIMITS /\ frequency = 1000000 /\ band = 1

\* C2: between the forward and the inverse transform, a bin below N/2 that
\* lies in no band, its mirror bin, and the Nyquist bin hold exactly what the
\* forward transform produced, and the loop iteration of such a bin changes
\* no compressor.
C2_Untouched ==
    /\ [](pc \in {"bins", "synthesize"} =>
            /\ mb.real[HalfSize] = analysed.real[HalfSize]
            /\ mb.imag[HalfSize] = analysed.imag[HalfSize]
            /\ \A j \in 0 .. (HalfSize - 1) :
                 InNoBand(BinFrequency(j)) =>
                   /\ mb.real[j] = analysed.real[j]
                   /\ mb.imag[j] = analysed.imag[j]
                   /\ j # 0 => /\ mb.real[FFT_SIZE - j] = analysed.real[FFT_SIZE - j]
                               /\ mb.imag[FFT_SIZE - j] = analysed.imag[FFT_SIZE - j])
    /\ [][(pc = "bins" /\ InNoBand(BinFrequency(i))) => mb' = mb]_vars

\* C2 case: the bin loop is over, one bin lies in no band and carries signal,
\* the other bin has been compressed
C2_Witness ==
    /\ pc = "synthesize"
    /\ \E j, k \in 0 .. (HalfSize - 1) :
         /\ InNoBand(BinFrequency(j))
         /\ analysed.real[j] # 0
         /\ ~InNoBand(BinFrequency(k))
         /\ mb.real[k] # analysed.real[k]

\* C3 as stated: whatever the input, the envelope and the parameters (a knee
\* of 0 included), the value process returns lies within [-0.99, 0.99].
C3_Clamped ==
    last.called => FLe(FAbs(last.result), Limit)

\* C4 as stated: when every bin lies in no band, process returns the block it
\* was given, each sample within 1e-4.
C4_PassThrough ==
    (pc = "idle" /\ calls > 0 /\ \A j \in 0 .. (HalfSize - 1) : InNoBand(BinFrequency(j)))
    => \A k \in 0 .. (size - 1) :
         output[k] - input[k] <= 1 /\ input[k] - output[k] <= 1

\* C5: the envelope of a band changes only in the loop iteration of a bin of
\* that band, and then to the value the envelope update of its own process
\* gives; so it is carried unchanged from the end of a call into the next.
C5_EnvelopeKept ==
    [][\A b \in Bands :
         mb'.wdrc_bands[b].envelope # mb.wdrc_bands[b].envelope =>
           /\ pc = "bins"
           /\ ~InNoBand(BinFrequency(i))
           /\ \A c \in BandsHolding(BinFrequency(i)) : b <= c
           /\ b \in BandsHolding(BinFrequency(i))
           /\ mb'.wdrc_bands[b].envelope
                = EnvelopeUpdate(mb.wdrc_bands[b], linear_to_db(Magnitude(mb, i)))]_vars

\* C5 case: a second call starts with an envelope the first call moved
C5_Witness ==
    /\ pc = "prepare" /\ calls = 2
    /\ \E b \in Bands : mb.wdrc_bands[b].envelope # Zero

\* C6: once a call has prepared the buffers, before the forward transform,
\* real[] holds the block followed by zeros and imag[] is all zero.
C6_Prepared ==
    pc = "analyze" =>
      \A k \in Bins :
        /\ k < size => mb.real[k] = input[k]
        /\ k >= size => mb.real[k] = 0
        /\ mb.imag[k] = 0

\* C6 case: a short block prepared after a call that left data in the buffers
C6_Witness ==
    /\ pc = "analyze" /\ calls = 2 /\ size = 1
    /\ output[FFT_SIZE - 1] > 0

\* C7: diff is the envelope as updated in this call minus the threshold;
\* gain_db follows the three cases of the soft-knee curve; the value before
\* limiting is input * 10^((-gain_db + band_gain) / 20).
C7_GainFormula ==
    last.called =>
      Bind(FSub(w.envelope, w.threshold), LAMBDA d :
        /\ last.diff = d
        /\ FLe(FAbs(d), FDiv(w.knee_width, Two)) =>
             last.gain_db =
               FDiv(FMul(FMul(FSub(w.ratio, One), FAdd(d, FDiv(w.knee_width, Two))),
                         FAdd(d, FDiv(w.knee_width, Two))),
                    FMul(Two, w.knee_width))
        /\ FGt(d, FDiv(w.knee_width, Two)) =>
             last.gain_db = FMul(FSub(w.ratio, One), d)
        /\ FLt(d, FNeg(FDiv(w.knee_width, Two))) => last.gain_db = Zero
        /\ last.output
             = FMul(last.input,
                    Pow10(FDiv(FAdd(FNeg(last.gain_db), w.band_gain), Twenty))))

\* C7 case: a call whose envelope moved and whose diff fell inside the knee
C7_Witness ==
    /\ last.called
    /\ last.envelope # last.before
    /\ FLt(FAbs(last.diff), FDiv(w.knee_width, Two))
    /\ FGt(last.gain_db, Zero)

AtUpperEdge ==
    /\ last.called
    /\ FGt(w.knee_width, Zero) /\ FGe(w.ratio, One)
    /\ FEq(last.diff, FDiv(w.knee_width, Two))

AtLowerEdge ==
    /\ last.called
    /\ FGt(w.knee_width, Zero) /\ FGe(w.ratio, One)
    /\ FEq(last.diff, FNeg(FDiv(w.knee_width, Two)))

IsBand0(c) ==
    /\ c.threshold = FromInt(-50) /\ c.ratio = FromInt(2)
    /\ c.knee_width = FromInt(10) /\ c.band_gain = FromInt(15)

\* the envelope of the latest call is within 0.005 dB of -30 dB
EnvelopeAtMinus30 ==
    FLe(FAbs(FAdd(last.envelope, FromInt(30))), Lit(5, 1000))

\* C9: band 0 with its envelope at -30 dB and input 1.0 takes the full
\* compression branch (diff about 20 > 5), gain_db is about 20, and the output
\* is about 0.562 (-5 dB).
C9_Band0Example ==
    (last.called /\ IsBand0(w) /\ EnvelopeAtMinus30 /\ last.input = One) =>
      /\ FGt(last.diff, FromInt(5))
      /\ FLe(FAbs(FSub(last.diff, FromInt(20))), Lit(5, 1000))
      /\ FLe(FAbs(FSub(last.gain_db, FromInt(20))), Lit(5, 1000))
      /\ last.gain_db = LinearGain(w, last.diff)
      /\ FGe(last.result, Lit(5615, 10000)) /\ FLe(last.result, Lit(5630, 10000))

\* C9 case: band 0 called with 1.0 while its envelope is at -30 dB
C9_Witness ==
    last.called /\ IsBand0(w) /\ EnvelopeAtMinus30 /\ last.input = One

\* the envelope is within 0.01 dB of the level of the held input
C10_Within ==
    FLe(FAbs(FSub(w.envelope, linear_to_db(held))), Lit(1, 100))

\* C10 as stated: with the same input on every call, the envelope eventually
\* comes within 0.01 dB of input_db and stays there.
C10_Converges == <>[]C10_Within

\* C11 as stated: no call of process divides by zero or yields a value that is
\* not finite (gain_db, the value before limiting, the returned value), for
\* every input and every parameter set with ratio >= 1 and knee_width >= 0.
C11_Finite ==
    (last.called /\ FGe(w.ratio, One) /\ FGe(w.knee_width, Zero)) =>
      /\ ~(FLe(FAbs(last.diff), FDiv(w.knee_width, Two)) /\ IsZero(w.knee_width))
      /\ IsFinite(last.input_db)
      /\ IsFinite(last.gain_db)
      /\ IsFinite(last.output)
      /\ IsFinite(last.result)

\* C12 as stated: a call with size > N reads no element of the work buffers
\* at an index >= N.
C12_InBounds == oob = {}

InProcess == pc \in {"prepare", "analyze", "bins", "synthesize", "normalize"}

\* C13: when the allocation of the transform object fails, construction ends
\* there for good (no setParameters, no process call ever follows), and the
\* object is constructed or process runs only with the transform present.
C13_ConstructionFails ==
    /\ [](pc = "failed" => (mb.FFT = "null" /\ calls = 0))
    /\ []((pc = "idle" \/ InProcess) => mb.FFT = "fft")
    /\ [][pc = "failed" => pc' = "failed"]_vars

C13_Witness == pc = "failed" /\ mb.FFT = "null" /\ calls = 0

\* a table whose limits are not strictly increasing
Malformed(t) == \E b \in 1 .. NUM_BANDS : t[b] >= t[b + 1]

\* C14: for every table, malformed ones included, getBandIndex returns -1 or
\* an index of the band array; the index it returns is an element of
\* wdrc_bands, and a bin whose frequency is in no interval is left as it is.
C14_IndexInRange ==
    band # -2 =>
      /\ band \in (-1) .. (NUM_BANDS - 1)
      /\ band >= 0 => band \in DOMAIN mb.wdrc_bands
      /\ InNoBand(frequency) =>
           /\ band = -1
           /\ \A j \in 0 .. (HalfSize - 1) :
                BinFrequency(j) = frequency => ProcessBin(mb, limits, j) = mb

\* C14 case: a malformed table has classified a bin frequency that lies in none
\* of its intervals
C14_Witness ==
    /\ band = -1
    /\ Malformed(limits)
    /\ \E j \in 0 .. (HalfSize - 1) : BinFrequency(j) = frequency

\* the band of bin j under the table of the processor
BandOfBin(j) == getBandIndex(limits, BinFrequency(j))

\* C15: the loop iteration of a bin of band b leaves the compressors of all
\* other bands (envelope and parameters) as they are, changes of band b only
\* the envelope, to the update by this bin's magnitude, and writes the bin
\* with the value band b's own compressor returns; a bin of no band changes
\* no compressor.
C15_Independent ==
    [][pc = "bins" =>
         /\ \A c \in Bands \ {BandOfBin(i)} : mb'.wdrc_bands[c] = mb.wdrc_bands[c]
         /\ BandOfBin(i) >= 0 =>
              /\ mb'.wdrc_bands[BandOfBin(i)]
                   = [mb.wdrc_bands[BandOfBin(i)] EXCEPT
                        !.envelope = WDRC_process(mb.wdrc_bands[BandOfBin(i)],
                                                  Magnitude(mb, i)).envelope]
              /\ mb'.real[i]
                   = FromFloat(FMul(WDRC_process(mb.wdrc_bands[BandOfBin(i)],
                                                 Magnitude(mb, i)).result,
                                    CosPhase(mb, i)))]_vars

\* C15 case: the bins of one call went to two different bands and moved the
\* envelope of each
C15_Witness ==
    /\ pc = "synthesize"
    /\ BandOfBin(0) >= 0 /\ BandOfBin(1) >= 0 /\ BandOfBin(0) # BandOfBin(1)
    /\ mb.wdrc_bands[BandOfBin(0)].envelope # Zero
    /\ mb.wdrc_bands[BandOfBin(1)].envelope # Zero
    /\ mb.wdrc_bands[BandOfBin(0)].envelope # mb.wdrc_bands[BandOfBin(1)].envelope

\* the fields of a compressor that setParameters writes
Params(c) ==
    [threshold |-> c.threshold, ratio |-> c.ratio, knee_width |-> c.knee_width,
     band_gain |-> c.band_gain, alpha_attack |-> c.alpha_attack,
     alpha_release |-> c.alpha_release]

\* C16: setParameters runs once per band, in the loop of the constructor before
\* the first call of process (band b at loop index b, the loop is never entered
\* again), and no other step, in particular no step of process, changes
\* threshold, ratio, knee_width, band_gain, alpha_attack or alpha_release.
C16_SetOnce ==
    /\ [](pc = "construct" => \A b \in Bands : ~Configured(mb.wdrc_bands[b]))
    /\ [](pc = "setParameters" =>
            /\ calls = 0
            /\ \A b \in Bands : Configured(mb.wdrc_bands[b]) <=> b < i)
    /\ []((pc = "idle" \/ InProcess) =>
            \A b \in Bands : Configured(mb.wdrc_bands[b]))
    /\ [][/\ pc' = "setParameters" => pc \in {"construct", "setParameters"}
          /\ pc = "setParameters" => i' = i + 1
          /\ \A b \in Bands :
               Params(mb'.wdrc_bands[b]) # Params(mb.wdrc_bands[b]) =>
                 /\ pc = "setParameters" /\ b = i
                 /\ mb'.wdrc_bands[b]
                      = setParameters(mb.wdrc_bands[b], BAND_PARAMS[b + 1])]_vars

\* C16 case: process calls have moved an envelope of the constructed processor
C16_Witness ==
    /\ pc = "idle" /\ calls >= 2
    /\ \E b \in Bands : mb.wdrc_bands[b].envelope # Zero
    /\ \A b \in Bands :
         Params(mb.wdrc_bands[b]).threshold = BAND_PARAMS[b + 1].threshold

\* C17: the last step of process sets output[k] to real[k] / N for the indices
\* k < size (k < N: the element exists) and leaves every output element at an
\* index >= size as it was; no other step of the processor writes the output
\* block, no step of it writes the input block (only the caller does, between
\* calls), and the processor object has no member that refers to a block: its
\* members are FFT, wdrc_bands, real, imag, and they do not change between
\* calls when the caller replaces the blocks.
C17_OutputOnly ==
    /\ [](DOMAIN mb = {"FFT", "wdrc_bands", "real", "imag"})
    /\ [][/\ pc = "normalize" =>
               \A k \in DOMAIN output :
                 /\ (k < size /\ k < FFT_SIZE) =>
                      output'[k] = RoundDiv(mb.real[k], FFT_SIZE)
                 /\ k >= size => output'[k] = output[k]
          /\ output' # output => pc = "normalize"
          /\ input' # input => pc = "idle"
          /\ pc = "idle" => mb' = mb]_vars

\* C17 case: a call with a block shorter than N has returned; the output block
\* holds its samples and, from index size on, what it held before
C17_Witness ==
    /\ pc = "idle" /\ calls = 1
    /\ size > 0 /\ size < FFT_SIZE
    /\ \A k \in 0 .. (size - 1) : output[k] = RoundDiv(mb.real[k], FFT_SIZE)
    /\ \A k \in size .. (MaxSize - 1) : output[k] = -7777
    /\ \E k \in size .. (FFT_SIZE - 1) : RoundDiv(mb.real[k], FFT_SIZE) # -7777

\* C18 as stated: over every sequence of construction, copy, assignment and
\* destruction, no two live instances hold the same transform object, the
\* transform of a live instance has not been released, and no transform is
\* released twice or used after its release.
C18_ExclusiveOwner ==
    /\ \A a \in Slots, b \in Slots :
         (a # b /\ objects[a].live /\ objects[b].live) =>
           objects[a].FFT # objects[b].FFT
    /\ \A a \in Slots : objects[a].live => heap[objects[a].FFT] = "allocated"
    /\ misuse = {}

\* no task is inside a function of audio_hardware.cpp
Quiet == \A t \in Tasks : task[t] = "idle"

\* C19 as stated: with start_audio_streams and stop_audio_streams called from
\* both tasks in any interleaving, no port is started when it is running or
\* stopped when it is stopped, and whenever no call is in progress
\* audio_streams_running is true exactly if both ports are running, and no
\* port runs when it is false.
C19_ThreadSafe ==
    /\ redundant = {}
    /\ Quiet => \A p \in Ports : started[p] <=> audio_streams_running

\* the statements of initialize_i2s_hardware
InInitialize ==
    task["loop"] \in {"initialize", "mic_install", "mic_pin", "dac_install",
                      "dac_pin", "dac_failed", "set_initialized"}

\* C20: the hardware is reported ready only with driver and pins of both
\* ports in place, and the flag is set only by a call in which all four steps
\* succeeded; a call that failed at any step has returned with no driver
\* installed and the flag false; a call with the flag already true returns
\* with flag, drivers and ports as they were.
C20_AllOrNothing ==
    /\ [](i2s_hardware_initialized =>
            \A p \in Ports : driver[p] = "configured")
    /\ []((~i2s_hardware_initialized /\ ~InInitialize) =>
            \A p \in Ports : driver[p] = "none")
    /\ []((~InInitialize /\ init_result \in {"mic_install", "mic_pin",
                                              "dac_install", "dac_pin"}) =>
            ~i2s_hardware_initialized)
    /\ [][/\ i2s_hardware_initialized' # i2s_hardware_initialized =>
               /\ i2s_hardware_initialized' /\ init_result' = "ok"
               /\ \A p \in Ports : driver[p] = "configured"
          /\ (task["loop"] = "initialize" /\ i2s_hardware_initialized
                /\ task'["loop"] # "initialize") =>
               /\ task'["loop"] = "idle"
               /\ UNCHANGED <<i2s_hardware_initialized, audio_streams_running,
                              driver, started>>]_vars

\* C20 case: a call has returned after the pin configuration of the DAC failed
\* (both drivers had been installed), with both drivers gone and the flag false
C20_Witness ==
    /\ ~InInitialize /\ init_result = "dac_pin"
    /\ ~i2s_hardware_initialized
    /\ \A p \in Ports : driver[p] = "none"

\* C21 (calls from one task): start_audio_streams reaches its i2s_start calls
\* only with the hardware initialized and the streams not running, and only
\* i2s_start starts a port; a failed start of the microphone returns with
\* no port started and the flag false; a failed start of the DAC returns with
\* the microphone stopped again and the flag false; the flag is set only with
\* both ports started, so with no call in progress it is true only if both
\* ports run.
C21_StartAllOrNothing ==
    /\ [](task["loop"] \in {"start_mic", "start_dac", "start_undo", "set_running"}
            => (i2s_hardware_initialized /\ ~audio_streams_running))
    /\ []((Quiet /\ audio_streams_running) => \A p \in Ports : started[p])
    /\ []((Quiet /\ start_result \in {"mic_failed", "dac_failed"}) =>
            (~audio_streams_running /\ \A p \in Ports : ~started[p]))
    /\ [][/\ \A p \in Ports :
               (started'[p] /\ ~started[p]) =>
                 \/ (task["loop"] = "start_mic" /\ p = "MIC")
                 \/ (task["loop"] = "start_dac" /\ p = "DAC")
          /\ (task["loop"] = "start_mic" /\ task'["loop"] = "idle") =>
               /\ UNCHANGED started
               /\ \A p \in Ports : ~started'[p]
               /\ ~audio_streams_running'
          /\ (task["loop"] = "start_dac" /\ task'["loop"] # "set_running") =>
               task'["loop"] = "start_undo"
          /\ task["loop"] = "start_undo" =>
               /\ task'["loop"] = "idle"
               /\ \A p \in Ports : ~started'[p]
               /\ ~audio_streams_running'
          /\ (audio_streams_running' /\ ~audio_streams_running) =>
               \A p \in Ports : started[p]]_vars

\* C21 case: a call in which the microphone started and the DAC failed to start
\* has returned
C21_Witness ==
    /\ Quiet /\ start_result = "dac_failed"
    /\ i2s_hardware_initialized
    /\ ~started["MIC"] /\ ~started["DAC"]
    /\ ~audio_streams_running

\* C24: a call of process_pip_audio that finds no sequence active returns false
\* with every buffer element as it was, and writes nothing on the way; a call
\* that finds a sequence active writes buffer[0 .. i-1] in its first i
\* iterations and returns true with all num_samples elements written.
C24_BufferFrame ==
    /\ audio.ret = "false" =>
         (~audio.was_active /\ \A k \in DOMAIN buffer : buffer[k] = Untouched)
    /\ audio.ret = "true" =>
         (audio.was_active /\ \A k \in DOMAIN buffer : buffer[k] # Untouched)
    /\ audio.pc = "loop" =>
         /\ audio.was_active
         /\ \A k \in DOMAIN buffer : buffer[k] # Untouched <=> k < audio.i
    /\ audio.pc = "check" => \A k \in DOMAIN buffer : buffer[k] = Untouched

\* C24 case: the sequence ended inside a call, and the call has returned true
\* with the whole buffer written
C24_Witness ==
    /\ audio.pc = "idle" /\ audio.ret = "true"
    /\ ~pip_system.active
    /\ ctrl.pc = "idle" /\ ~sequence.stopped /\ sequence.n > 0
    /\ \A k \in DOMAIN buffer : buffer[k] # Untouched

\* C30 as stated: under every interleaving of start_pip_sequence and
\* stop_pip_sequence (control task) with process_pip_audio (audio task), an
\* active pip system has 1 <= remaining_pips <= total_pips; a sequence of n pips
\* that is over without having been stopped has played n pips; and only
\* start_pip_sequence makes the pip system active.
C30_PipsThreadSafe ==
    /\ [](pip_system.active =>
            (1 <= pip_system.remaining_pips
               /\ pip_system.remaining_pips <= pip_system.total_pips))
    /\ []((ctrl.pc = "idle" /\ ~pip_system.active /\ sequence.n > 0 /\ ~sequence.stopped)
            => sequence.tone = sequence.n * PIP_SAMPLES)
    /\ [][(pip_system'.active /\ ~pip_system.active) => ctrl.pc = "start_active"]_vars

\* the gain presses handled by the latest handle_button_events call
Presses == {handled[k] : k \in 1 .. Len(handled)}

AtLimit(e) ==
    \/ e.button = "up" /\ e.level_before = Len(gain_levels) - 1
    \/ e.button = "down" /\ e.level_before = 0

\* the pip system right after start_pip_sequence(n)
Starts(ps, n) == ps.active /\ ps.total_pips = n /\ ps.remaining_pips = n

\* C22 as stated: a gain press handled at a limit (up at the maximum level, down
\* at the minimum level) leaves gain level and gain factor as they were and
\* starts a sequence of exactly 3 pips.
C22_LimitPips ==
    \A e \in Presses :
        AtLimit(e) =>
            /\ e.level_after = e.level_before
            /\ e.factor_after = e.factor_before
            /\ Starts(e.ps, 3)

\* C23: a gain-up press handled below the maximum raises the level by one, a
\* gain-down press handled above the minimum lowers it by one; gain_factor is
\* gain_levels[new level] and a sequence of (new level + 1) pips, the level
\* number between 1 and 5, is started; the level and factor of the last press
\* handled are the ones handle_button_events leaves.
C23_GainStep ==
    /\ \A e \in Presses :
          ~AtLimit(e) =>
              /\ e.level_after \in 0 .. (Len(gain_levels) - 1)
              /\ e.level_after =
                     IF e.button = "up" THEN e.level_before + 1 ELSE e.level_before - 1
              /\ e.factor_after = gain_levels[e.level_after + 1]
              /\ Starts(e.ps, e.level_after + 1)
    /\ handled # <<>> =>
          /\ current_gain_level = handled[Len(handled)].level_after
          /\ gain_factor = handled[Len(handled)].factor_after

\* C23 case: the call handled a gain-up press from level 4 to level 5, the
\* maximum, and started 5 pips
C23_Witness ==
    /\ Len(handled) = 1
    /\ handled[1].button = "up" /\ handled[1].level_after = Len(gain_levels) - 1
    /\ Starts(handled[1].ps, 5)
    /\ current_gain_level = Len(gain_levels) - 1
    /\ gain_factor = gain_levels[Len(gain_levels)]

\* handle_button_events calls enter_sleep_mode in this step
EntersSleep == control = "running" /\ control' = "asleep"

\* C28 as stated: sleep is entered only when the recorded hold of the sleep
\* button (millis() - btn_sleep_press_start, button down) is at least
\* SLEEP_HOLD_TIME; never after the button went up since the recorded press
\* start; once the button is up after a hold of at least 1000 ms the warning
\* pips are cancelled; the warning sequence is started at most once per
\* recorded hold, and not before the hold is 1000 ms.
C28_SleepHold ==
    /\ [][EntersSleep =>
            /\ sleep_pin = "LOW" /\ btn_sleep_held'
            /\ millis - btn_sleep_press_start' >= SLEEP_HOLD_TIME]_vars
    /\ [][EntersSleep => ~hold'.released]_vars
    /\ [][hold'.warnings > hold.warnings =>
            /\ hold'.warnings = 1
            /\ millis - btn_sleep_press_start' >= WarningHold]_vars
    /\ []((control = "running" /\ since_poll = "nothing" /\ sleep_pin = "HIGH")
            => ~(pip_system.active /\ hold.warning))

\* C29 as stated: in light sleep no pip sequence is active,
\* audio_processing_active is false, system_sleeping is true and the streams
\* are stopped; the wake-up leaves system_sleeping false,
\* audio_processing_active true, the streams started, gain level and factor as
\* at sleep entry and a 2-pip sequence started; while system_sleeping is true no
\* button flag is cleared and no press is handled.
C29_SleepWake ==
    /\ [](control = "asleep" =>
            /\ ~pip_system.active
            /\ ~audio_processing_active /\ system_sleeping
            /\ ~audio_streams_running /\ \A p \in Ports : ~started[p])
    /\ [][system_sleeping =>
            /\ btn_gain_up_flag => btn_gain_up_flag'
            /\ btn_gain_down_flag => btn_gain_down_flag'
            /\ btn_sleep_flag => btn_sleep_flag'
            /\ handled' = handled
            /\ current_gain_level' = current_gain_level]_vars
    /\ [][(control = "asleep" /\ control' = "running") =>
            /\ ~system_sleeping' /\ audio_processing_active'
            /\ <<current_gain_level', gain_factor'>> = at_sleep
            /\ Starts(pip_system', 2)
            /\ audio_streams_running' /\ \A p \in Ports : started'[p]]_vars

\* the command and parameter of the line handled in this step, and the blob
\* it names
Handles(command) ==
    /\ serial' # NoCommand
    /\ Parse(serial'.line).command = command
NamedKey == Parse(serial'.line).param
NamedBlob == nvs[NamedKey]

\* configuration, gain level and gain factor are left as they were
Kept ==
    /\ current_config' = current_config
    /\ current_gain_level' = current_gain_level
    /\ gain_factor' = gain_factor

\* C25: load_preset applies the preset exactly when NVS is initialized, the
\* key exists and is read, the stored checksum equals the recomputed one and
\* the version is 1: the configuration in RAM is the blob, the gain level its
\* gain_level and gain_factor gain_levels[gain_level]. In every other case it
\* returns false and configuration, gain level and gain factor are unchanged.
C25_LoadGuard ==
    [][(Handles(W_load_preset) /\ NamedKey # <<>>) =>
        /\ serial'.ret \in {"true", "false"}
        /\ serial'.ret = "true" <=>
              /\ nvs_initialized
              /\ NamedBlob # NoBlob /\ serial'.err = ESP_OK
              /\ NamedBlob.checksum = calculate_checksum(NamedBlob)
              /\ NamedBlob.version = 1
        /\ serial'.ret = "true" =>
              /\ current_config' = NamedBlob
              /\ current_gain_level' = NamedBlob.gain_level
              /\ gain_factor' = gain_levels[NamedBlob.gain_level + 1]
        /\ serial'.ret = "false" => Kept]_vars

\* C25 case: the blob named by the latest load_preset has a matching checksum
\* and version 2; the load returned false with another gain level in effect
C25_Witness ==
    /\ Parse(serial.line).command = W_load_preset
    /\ serial.ret = "false"
    /\ nvs_initialized /\ serial.err = ESP_OK
    /\ nvs[Parse(serial.line).param].version = 2
    /\ nvs[Parse(serial.line).param].checksum
          = calculate_checksum(nvs[Parse(serial.line).param])
    /\ current_gain_level # nvs[Parse(serial.line).param].gain_level

\* the name given in the line is "default" in some letter case
NamesDefault(line) ==
    LET words == trim(line)
        name == substring(words, indexOf(words, " ") + 1)
    IN /\ indexOf(words, " ") > 0
       /\ Len(name) = Len(W_default)
       /\ \A k \in 1 .. Len(name) :
             name[k] \in {W_default[k], UpperCase[PositionIn(LowerCase, W_default[k])]}

\* C26: no step erases the preset "default" once it is in NVS, and a
\* delete_preset command naming "default" in any letter case erases nothing.
C26_DefaultKept ==
    /\ [][(nvs # <<>> /\ nvs[W_default] # NoBlob) => nvs'[W_default] # NoBlob]_vars
    /\ [][(Handles(W_delete_preset) /\ NamesDefault(serial'.line)) => nvs' = nvs]_vars

\* C26 case: a delete_preset naming the preset with capital letters was
\* refused, with the preset in NVS
C26_Witness ==
    /\ Parse(serial.line).command = W_delete_preset
    /\ NamesDefault(serial.line)
    /\ \E k \in 1 .. Len(serial.line) : serial.line[k] = "F"
    /\ serial.ret = "refused"
    /\ nvs_initialized /\ nvs[W_default] # NoBlob

\* the parameter is a number: an optional sign followed by digits only
IsNumber(s) ==
    LET digits == IF s # <<>> /\ s[1] \in {"-", "+"} THEN Tail(s) ELSE s
    IN /\ digits # <<>>
       /\ \A k \in 1 .. Len(digits) : \E d \in 1 .. Len(Digits) : Digits[d] = digits[k]

\* C27 as stated: set_gain_level n with 1 <= n <= 5 sets the gain level to n - 1
\* and gain_factor to gain_levels[n - 1] and leaves no pip sequence active; with
\* the parameter missing, not a number or outside 1..5, gain level, gain factor
\* and pip state are unchanged.
C27_SetGainLevel ==
    [][Handles(W_set_gain_level) =>
        IF IsNumber(trim(NamedKey)) /\ toInt(NamedKey) \in 1 .. 5
        THEN /\ current_gain_level' = toInt(NamedKey) - 1
             /\ gain_factor' = gain_levels[toInt(NamedKey)]
             /\ ~pip_system'.active
        ELSE /\ current_gain_level' = current_gain_level
             /\ gain_factor' = gain_factor
             /\ pip_system' = pip_system]_vars

-----------------------------------------------------------------------------
(* The loop of step 3 of MultibandWDRC::process, bin after bin              *)

\* the envelope of band b of a freshly built processor after the first n bins
\* of its first call: one update for each of these bins that lies in band b,
\* in ascending order, each starting from what the one before left
RECURSIVE EnvelopeAfterBins(_, _)
EnvelopeAfterBins(b, n) ==
    IF n = 0 THEN Zero
    ELSE Bind(EnvelopeAfterBins(b, n - 1), LAMBDA e :
           IF getBandIndex(limits, BinFrequency(n - 1)) = b
           THEN EnvelopeUpdate([mb.wdrc_bands[b] EXCEPT !.envelope = e],
                               linear_to_db(Magnitude(analysed, n - 1)))
           ELSE e)

\* the number of bins the loop has passed in the current call
BinsDone ==
    IF pc = "bins" THEN i
    ELSE IF pc \in {"synthesize", "normalize"} THEN HalfSize
    ELSE 0

\* C31: the loop takes the bins in ascending order, one index at a step; a
\* step for a bin of band b updates the envelope of b once, from the value
\* the step before left, and no other envelope; so after n bins of a call
\* the envelope of b has been advanced once for each of these bins in b.
C31_PerBinEnvelope ==
    /\ [](calls = 1 /\ pc \in {"bins", "synthesize", "normalize"}
          => \A b \in Bands : mb.wdrc_bands[b].envelope = EnvelopeAfterBins(b, BinsDone))
    /\ [][pc = "bins" =>
            /\ i' = i + 1
            /\ \A b \in Bands :
                 mb'.wdrc_bands[b].envelope
                   = IF getBandIndex(limits, BinFrequency(i)) = b
                     THEN EnvelopeUpdate(mb.wdrc_bands[b], linear_to_db(Magnitude(mb, i)))
                     ELSE mb.wdrc_bands[b].envelope]_vars

\* C31 case: both bins of the first call lie in band 0, and the second moved
\* the envelope on from where the first left it
C31_Witness ==
    /\ pc = "synthesize" /\ calls = 1
    /\ getBandIndex(limits, BinFrequency(0)) = 0
    /\ getBandIndex(limits, BinFrequency(1)) = 0
    /\ EnvelopeAfterBins(0, 1) # Zero
    /\ mb.wdrc_bands[0].envelope # EnvelopeAfterBins(0, 1)
    /\ mb.wdrc_bands[0].envelope = EnvelopeAfterBins(0, 2)

-----------------------------------------------------------------------------
(* The envelope update of WDRC::process on its own                          *)

\* 0 < alpha < 1 for both coefficients of compressor c
AlphasInRange(c) ==
    /\ FGt(c.alpha_attack, Zero) /\ FLt(c.alpha_attack, One)
    /\ FGt(c.alpha_release, Zero) /\ FLt(c.alpha_release, One)

\* the coefficient clause: attack exactly when input_db > the previous
\* envelope, release otherwise
RightCoefficient ==
    last.envelope
      = IF FGt(last.input_db, last.before)
        THEN Smooth(w.alpha_attack, last.before, last.input_db)
        ELSE Smooth(w.alpha_release, last.before, last.input_db)

\* x lies between a and b, whichever is lower
Between(a, x, b) ==
    \/ FLe(a, x) /\ FLe(x, b)
    \/ FLe(b, x) /\ FLe(x, a)

\* one unit in the last place of a
Ulp(a) == IF IsZero(a) THEN Zero ELSE Flt(1, T23, a.e - 23)

\* x lies between a and b or one unit in the last place beyond one of them
BetweenRounded(a, x, b) ==
    \/ FLe(FSub(a, Ulp(a)), x) /\ FLe(x, FAdd(b, Ulp(b)))
    \/ FLe(FSub(b, Ulp(b)), x) /\ FLe(x, FAdd(a, Ulp(a)))

\* C32 as stated: with 0 < alpha < 1 the envelope after a call lies between
\* the envelope before it and input_db, both included, and the attack
\* coefficient is used exactly when input_db > the envelope before.
C32_NoOvershoot ==
    (last.called /\ AlphasInRange(w)) =>
      /\ RightCoefficient
      /\ Between(last.before, last.envelope, last.input_db)

\* C32, amended: the envelope after a call lies between the envelope before
\* it and input_db, or one unit in the last place of the float beyond them
\* (the rounding of the two products and of the sum); the coefficient is
\* chosen as stated.
C32_NoOvershootRounded ==
    (last.called /\ AlphasInRange(w)) =>
      /\ RightCoefficient
      /\ BetweenRounded(last.before, last.envelope, last.input_db)

\* C32 case: a call whose input_db equals the envelope before it took the
\* release coefficient, and the rounded sum is the float next to the envelope
C32_Witness ==
    /\ last.called /\ AlphasInRange(w)
    /\ last.input_db = last.before
    /\ last.envelope = Smooth(w.alpha_release, last.before, last.input_db)
    /\ last.envelope # last.before
    /\ BetweenRounded(last.before, last.envelope, last.input_db)

-----------------------------------------------------------------------------
(* The spectrum handed to the inverse transform                             *)

\* the bins whose mirror the loop writes, and the indices of the mirrors
MirroredBins == 1 .. (HalfSize - 1)
MirrorIndices == (HalfSize + 1) .. (FFT_SIZE - 1)

\* the work-buffer indices a step changes
Written == { k \in Bins : mb'.real[k] # mb.real[k] \/ mb'.imag[k] # mb.imag[k] }

\* C33: when the inverse transform starts, real[N-k] = real[k] and
\* imag[N-k] = -imag[k] for every k in 1..N/2-1, whether bin k was rewritten
\* by a compressor or left as the forward transform gave it; and a loop step
\* writes bin i itself and, for i # 0, its mirror N-i in N/2+1..N-1 only.
C33_ConjugateSymmetric ==
    /\ [](pc = "synthesize" =>
            \A k \in MirroredBins :
              /\ mb.real[FFT_SIZE - k] = mb.real[k]
              /\ mb.imag[FFT_SIZE - k] = -mb.imag[k])
    /\ [][pc = "bins" =>
            \A k \in Written :
              \/ k = i
              \/ i # 0 /\ k = FFT_SIZE - i /\ k \in MirrorIndices]_vars

\* C33 case: bin 1 lies in a band, the compressor changed it, its imaginary
\* part is not zero, and the inverse transform is about to start
C33_Witness ==
    /\ pc = "synthesize"
    /\ ~InNoBand(BinFrequency(1))
    /\ mb.imag[1] # 0
    /\ mb.real[1] # analysed.real[1] \/ mb.imag[1] # analysed.imag[1]
    /\ mb.real[FFT_SIZE - 1] = mb.real[1]
    /\ mb.imag[FFT_SIZE - 1] = -mb.imag[1]

====
